---------------------------- MODULE Spec2Model ----------------------------
(***************************************************************************)
(* The GDAX websocket input plugin (package gdaxWebsocket): configuration  *)
(* validation, planning of the subscribe requests, the subscribe           *)
(* handshake and the supervision of one listen goroutine per connection.   *)
(*                                                                         *)
(* Strings the code parses or transforms (pairs: strings.ToUpper; key and  *)
(* secret: base64 decoding; timestamp: strconv.FormatInt) are sequences of *)
(* one-character strings.  Strings the code only compares or tests for     *)
(* emptiness (channel name, user_name, passphrase, message type) are       *)
(* atomic, with "" the empty string.                                       *)
(***************************************************************************)
EXTENDS Integers, Sequences, FiniteSets, TLC

VARIABLES
    FeedURL,         \* gx.FeedURL
    Pairs,           \* gx.Pairs
    Channels,        \* gx.Channels
    userNamesByKey,  \* gx.userNamesByKey
    acc,             \* gx.acc
    wg,              \* gx.wg, the WaitGroup's counter
    conns,           \* gx.conns, a sequence of connection ids
    pc,              \* where the calling goroutine stands
    subs,            \* Start's local subs (the planner's result)
    subIdx,          \* Start's position in  for _, req := range subs
    res,             \* Start's local res (the decoded acknowledgement)
    retErr,          \* the error Start returns once its call of Stop is over
    wsConn,          \* Start's local wsConn (0 before the first dial)
    stopIdx,         \* Stop's position in  for _, c := range gx.conns
    cs,              \* the transport: one record per connection dialed
    clock,           \* the readings time.Now().Unix() gives, one per iteration
    closeErrs,       \* the connections whose Close() returns an error
    logged,          \* messages the listen goroutines handed to lPrintln
    calls,           \* history: the calls of Start and Stop made so far
    last,            \* history: what the latest call returned, and where
    startDialed,     \* history: connections dialed by the latest Start
    verr,            \* result of the latest validateConfig
    signCalls,       \* history: the calls of getSignature and their results
    hsReq,           \* handshake validator: the request under test
    hsRes,           \* handshake validator: the response under test
    hsErr,           \* result of validateSubscribeResponse(hsReq, hsRes)
    pairsCall        \* result of a direct call of validateChannelPairs

gxVars == <<FeedURL, Pairs, Channels, userNamesByKey, acc, wg, conns>>
mainVars == <<pc, subs, subIdx, wsConn, res, retErr, stopIdx>>
envVars == <<cs, clock, closeErrs, logged>>
histVars == <<calls, last, startDialed, verr, signCalls>>
hsVars == <<hsReq, hsRes, hsErr, pairsCall>>
vars == <<gxVars, mainVars, envVars, histVars, hsVars>>

---------------------------------------------------------------------------
(* Strings and pairs *)

\* An error is a tuple: the message (fmt.Errorf's format) and its arguments;
\* the nil error is the empty tuple.
Nil == <<>>

InSeq(x, s) == \E k \in 1..Len(s) : s[k] = x

ETH_USD == <<"E", "T", "H", "-", "U", "S", "D">>
eth_usd == <<"e", "t", "h", "-", "u", "s", "d">>
ETH_BTC == <<"E", "T", "H", "-", "B", "T", "C">>
BTC_USD == <<"B", "T", "C", "-", "U", "S", "D">>
btc_usd == <<"b", "t", "c", "-", "u", "s", "d">>
BTC_GBP == <<"B", "T", "C", "-", "G", "B", "P">>
\* A pair spelled with a letter outside ASCII, in lower and in upper case.
eth_usd_acute == <<"é", "t", "h", "-", "u", "s", "d">>
ETH_USD_ACUTE == <<"É", "T", "H", "-", "U", "S", "D">>

---------------------------------------------------------------------------
(* The wire types *)

\* channelConfig's zero value but for the name and the pairs.
ChannelEntry(name, pairs) ==
    [Channel |-> name, Pairs |-> pairs, UserName |-> "", Key |-> <<>>,
     Secret |-> <<>>, Passphrase |-> ""]

\* subscribeRequest (subscribeResponse embeds it) without credentials.
Message(type, pairs, channels) ==
    [Type |-> type, Pairs |-> pairs, Channels |-> channels, Key |-> <<>>,
     Signature |-> <<>>, Passphrase |-> "", Timestamp |-> <<>>]

ZeroMessage == Message("", <<>>, <<>>)

\* encoding/json on a channelConfig with every field exported under its
\* name, the tags  json:"-"  left out.
marshalChannelConfig_noTags(c) ==
    ("name" :> c.Channel)
    @@ (IF Len(c.Pairs) > 0 THEN "product_ids" :> c.Pairs ELSE <<>>)
    @@ ("UserName" :> c.UserName) @@ ("Key" :> c.Key)
    @@ ("Secret" :> c.Secret) @@ ("Passphrase" :> c.Passphrase)

\* encoding/json on a channelConfig, a JSON object as a function of its
\* member names: "name", "product_ids" unless empty (omitempty), and nothing
\* of the fields tagged  json:"-".
marshalChannelConfig(c) ==
    ("name" :> c.Channel)
    @@ (IF Len(c.Pairs) > 0 THEN "product_ids" :> c.Pairs ELSE <<>>)

\* encoding/json on a subscribeRequest, what WriteJSON(req) puts on the
\* wire: "type" and "channels" always, the members tagged omitempty unless
\* empty.
marshalSubscribeRequest(req) ==
    ("type" :> req.Type)
    @@ (IF Len(req.Pairs) > 0 THEN "product_ids" :> req.Pairs ELSE <<>>)
    @@ ("channels" :> [k \in 1..Len(req.Channels) |->
                          marshalChannelConfig(req.Channels[k])])
    @@ (IF Len(req.Key) > 0 THEN "key" :> req.Key ELSE <<>>)
    @@ (IF Len(req.Signature) > 0 THEN "signature" :> req.Signature ELSE <<>>)
    @@ (IF req.Passphrase # "" THEN "passphrase" :> req.Passphrase ELSE <<>>)
    @@ (IF Len(req.Timestamp) > 0 THEN "timestamp" :> req.Timestamp ELSE <<>>)

---------------------------------------------------------------------------
(* strings.ToUpper, base64.StdEncoding.DecodeString, strconv.FormatInt *)

LowerToUpper ==
    [a |-> "A", b |-> "B", c |-> "C", d |-> "D", e |-> "E", f |-> "F",
     g |-> "G", h |-> "H", i |-> "I", j |-> "J", k |-> "K", l |-> "L",
     m |-> "M", n |-> "N", o |-> "O", p |-> "P", q |-> "Q", r |-> "R",
     s |-> "S", t |-> "T", u |-> "U", v |-> "V", w |-> "W", x |-> "X",
     y |-> "Y", z |-> "Z"]

\* unicode.ToUpper beyond ASCII: every rune that has an upper case of its
\* own in the tables of package unicode (Unicode 13), and, at the same
\* position of UnicodeUpper, that upper case.  A rune above U+00FF is
\* written by its code point, "U+0178".  A rune that is absent (as U+00DF)
\* stays as it is.
UnicodeLower ==
    <<"µ", "à", "á", "â", "ã", "ä", "å", "æ", "ç", "è", "é", "ê", "ë", "ì",
      "í", "î", "ï", "ð", "ñ", "ò", "ó", "ô", "õ", "ö", "ø", "ù", "ú", "û",
      "ü", "ý", "þ", "ÿ", "U+0101", "U+0103", "U+0105", "U+0107", "U+0109",
      "U+010B", "U+010D", "U+010F", "U+0111", "U+0113", "U+0115", "U+0117",
      "U+0119", "U+011B", "U+011D", "U+011F", "U+0121", "U+0123", "U+0125",
      "U+0127", "U+0129", "U+012B", "U+012D", "U+012F", "U+0131", "U+0133",
      "U+0135", "U+0137", "U+013A", "U+013C", "U+013E", "U+0140", "U+0142",
      "U+0144", "U+0146", "U+0148", "U+014B", "U+014D", "U+014F", "U+0151",
      "U+0153", "U+0155", "U+0157", "U+0159", "U+015B", "U+015D", "U+015F",
      "U+0161", "U+0163", "U+0165", "U+0167", "U+0169", "U+016B", "U+016D",
      "U+016F", "U+0171", "U+0173", "U+0175", "U+0177", "U+017A", "U+017C",
      "U+017E", "U+017F", "U+0180", "U+0183", "U+0185", "U+0188", "U+018C",
      "U+0192", "U+0195", "U+0199", "U+019A", "U+019E", "U+01A1", "U+01A3",
      "U+01A5", "U+01A8", "U+01AD", "U+01B0", "U+01B4", "U+01B6", "U+01B9",
      "U+01BD", "U+01BF", "U+01C5", "U+01C6", "U+01C8", "U+01C9", "U+01CB",
      "U+01CC", "U+01CE", "U+01D0", "U+01D2", "U+01D4", "U+01D6", "U+01D8",
      "U+01DA", "U+01DC", "U+01DD", "U+01DF", "U+01E1", "U+01E3", "U+01E5",
      "U+01E7", "U+01E9", "U+01EB", "U+01ED", "U+01EF", "U+01F2", "U+01F3",
      "U+01F5", "U+01F9", "U+01FB", "U+01FD", "U+01FF", "U+0201", "U+0203",
      "U+0205", "U+0207", "U+0209", "U+020B", "U+020D", "U+020F", "U+0211",
      "U+0213", "U+0215", "U+0217", "U+0219", "U+021B", "U+021D", "U+021F",
      "U+0223", "U+0225", "U+0227", "U+0229", "U+022B", "U+022D", "U+022F",
      "U+0231", "U+0233", "U+023C", "U+023F", "U+0240", "U+0242", "U+0247",
      "U+0249", "U+024B", "U+024D", "U+024F", "U+0250", "U+0251", "U+0252",
      "U+0253", "U+0254", "U+0256", "U+0257", "U+0259", "U+025B", "U+025C",
      "U+0260", "U+0261", "U+0263", "U+0265", "U+0266", "U+0268", "U+0269",
      "U+026A", "U+026B", "U+026C", "U+026F", "U+0271", "U+0272", "U+0275",
      "U+027D", "U+0280", "U+0282", "U+0283", "U+0287", "U+0288", "U+0289",
      "U+028A", "U+028B", "U+028C", "U+0292", "U+029D", "U+029E", "U+0345",
      "U+0371", "U+0373", "U+0377", "U+037B", "U+037C", "U+037D", "U+03AC",
      "U+03AD", "U+03AE", "U+03AF", "U+03B1", "U+03B2", "U+03B3", "U+03B4",
      "U+03B5", "U+03B6", "U+03B7", "U+03B8", "U+03B9", "U+03BA", "U+03BB",
      "U+03BC", "U+03BD", "U+03BE", "U+03BF", "U+03C0", "U+03C1", "U+03C2",
      "U+03C3", "U+03C4", "U+03C5", "U+03C6", "U+03C7", "U+03C8", "U+03C9",
      "U+03CA", "U+03CB", "U+03CC", "U+03CD", "U+03CE", "U+03D0", "U+03D1",
      "U+03D5", "U+03D6", "U+03D7", "U+03D9", "U+03DB", "U+03DD", "U+03DF",
      "U+03E1", "U+03E3", "U+03E5", "U+03E7", "U+03E9", "U+03EB", "U+03ED",
      "U+03EF", "U+03F0", "U+03F1", "U+03F2", "U+03F3", "U+03F5", "U+03F8",
      "U+03FB", "U+0430", "U+0431", "U+0432", "U+0433", "U+0434", "U+0435",
      "U+0436", "U+0437", "U+0438", "U+0439", "U+043A", "U+043B", "U+043C",
      "U+043D", "U+043E", "U+043F", "U+0440", "U+0441", "U+0442", "U+0443",
      "U+0444", "U+0445", "U+0446", "U+0447", "U+0448", "U+0449", "U+044A",
      "U+044B", "U+044C", "U+044D", "U+044E", "U+044F", "U+0450", "U+0451",
      "U+0452", "U+0453", "U+0454", "U+0455", "U+0456", "U+0457", "U+0458",
      "U+0459", "U+045A", "U+045B", "U+045C", "U+045D", "U+045E", "U+045F",
      "U+0461", "U+0463", "U+0465", "U+0467", "U+0469", "U+046B", "U+046D",
      "U+046F", "U+0471", "U+0473", "U+0475", "U+0477", "U+0479", "U+047B",
      "U+047D", "U+047F", "U+0481", "U+048B", "U+048D", "U+048F", "U+0491",
      "U+0493", "U+0495", "U+0497", "U+0499", "U+049B", "U+049D", "U+049F",
      "U+04A1", "U+04A3", "U+04A5", "U+04A7", "U+04A9", "U+04AB", "U+04AD",
      "U+04AF", "U+04B1", "U+04B3", "U+04B5", "U+04B7", "U+04B9", "U+04BB",
      "U+04BD", "U+04BF", "U+04C2", "U+04C4", "U+04C6", "U+04C8", "U+04CA",
      "U+04CC", "U+04CE", "U+04CF", "U+04D1", "U+04D3", "U+04D5", "U+04D7",
      "U+04D9", "U+04DB", "U+04DD", "U+04DF", "U+04E1", "U+04E3", "U+04E5",
      "U+04E7", "U+04E9", "U+04EB", "U+04ED", "U+04EF", "U+04F1", "U+04F3",
      "U+04F5", "U+04F7", "U+04F9", "U+04FB", "U+04FD", "U+04FF", "U+0501",
      "U+0503", "U+0505", "U+0507", "U+0509", "U+050B", "U+050D", "U+050F",
      "U+0511", "U+0513", "U+0515", "U+0517", "U+0519", "U+051B", "U+051D",
      "U+051F", "U+0521", "U+0523", "U+0525", "U+0527", "U+0529", "U+052B",
      "U+052D", "U+052F", "U+0561", "U+0562", "U+0563", "U+0564", "U+0565",
      "U+0566", "U+0567", "U+0568", "U+0569", "U+056A", "U+056B", "U+056C",
      "U+056D", "U+056E", "U+056F", "U+0570", "U+0571", "U+0572", "U+0573",
      "U+0574", "U+0575", "U+0576", "U+0577", "U+0578", "U+0579", "U+057A",
      "U+057B", "U+057C", "U+057D", "U+057E", "U+057F", "U+0580", "U+0581",
      "U+0582", "U+0583", "U+0584", "U+0585", "U+0586", "U+10D0", "U+10D1",
      "U+10D2", "U+10D3", "U+10D4", "U+10D5", "U+10D6", "U+10D7", "U+10D8",
      "U+10D9", "U+10DA", "U+10DB", "U+10DC", "U+10DD", "U+10DE", "U+10DF",
      "U+10E0", "U+10E1", "U+10E2", "U+10E3", "U+10E4", "U+10E5", "U+10E6",
      "U+10E7", "U+10E8", "U+10E9", "U+10EA", "U+10EB", "U+10EC", "U+10ED",
      "U+10EE", "U+10EF", "U+10F0", "U+10F1", "U+10F2", "U+10F3", "U+10F4",
      "U+10F5", "U+10F6", "U+10F7", "U+10F8", "U+10F9", "U+10FA", "U+10FD",
      "U+10FE", "U+10FF", "U+13F8", "U+13F9", "U+13FA", "U+13FB", "U+13FC",
      "U+13FD", "U+1C80", "U+1C81", "U+1C82", "U+1C83", "U+1C84", "U+1C85",
      "U+1C86", "U+1C87", "U+1C88", "U+1D79", "U+1D7D", "U+1D8E", "U+1E01",
      "U+1E03", "U+1E05", "U+1E07", "U+1E09", "U+1E0B", "U+1E0D", "U+1E0F",
      "U+1E11", "U+1E13", "U+1E15", "U+1E17", "U+1E19", "U+1E1B", "U+1E1D",
      "U+1E1F", "U+1E21", "U+1E23", "U+1E25", "U+1E27", "U+1E29", "U+1E2B",
      "U+1E2D", "U+1E2F", "U+1E31", "U+1E33", "U+1E35", "U+1E37", "U+1E39",
      "U+1E3B", "U+1E3D", "U+1E3F", "U+1E41", "U+1E43", "U+1E45", "U+1E47",
      "U+1E49", "U+1E4B", "U+1E4D", "U+1E4F", "U+1E51", "U+1E53", "U+1E55",
      "U+1E57", "U+1E59", "U+1E5B", "U+1E5D", "U+1E5F", "U+1E61", "U+1E63",
      "U+1E65", "U+1E67", "U+1E69", "U+1E6B", "U+1E6D", "U+1E6F", "U+1E71",
      "U+1E73", "U+1E75", "U+1E77", "U+1E79", "U+1E7B", "U+1E7D", "U+1E7F",
      "U+1E81", "U+1E83", "U+1E85", "U+1E87", "U+1E89", "U+1E8B", "U+1E8D",
      "U+1E8F", "U+1E91", "U+1E93", "U+1E95", "U+1E9B", "U+1EA1", "U+1EA3",
      "U+1EA5", "U+1EA7", "U+1EA9", "U+1EAB", "U+1EAD", "U+1EAF", "U+1EB1",
      "U+1EB3", "U+1EB5", "U+1EB7", "U+1EB9", "U+1EBB", "U+1EBD", "U+1EBF",
      "U+1EC1", "U+1EC3", "U+1EC5", "U+1EC7", "U+1EC9", "U+1ECB", "U+1ECD",
      "U+1ECF", "U+1ED1", "U+1ED3", "U+1ED5", "U+1ED7", "U+1ED9", "U+1EDB",
      "U+1EDD", "U+1EDF", "U+1EE1", "U+1EE3", "U+1EE5", "U+1EE7", "U+1EE9",
      "U+1EEB", "U+1EED", "U+1EEF", "U+1EF1", "U+1EF3", "U+1EF5", "U+1EF7",
      "U+1EF9", "U+1EFB", "U+1EFD", "U+1EFF", "U+1F00", "U+1F01", "U+1F02",
      "U+1F03", "U+1F04", "U+1F05", "U+1F06", "U+1F07", "U+1F10", "U+1F11",
      "U+1F12", "U+1F13", "U+1F14", "U+1F15", "U+1F20", "U+1F21", "U+1F22",
      "U+1F23", "U+1F24", "U+1F25", "U+1F26", "U+1F27", "U+1F30", "U+1F31",
      "U+1F32", "U+1F33", "U+1F34", "U+1F35", "U+1F36", "U+1F37", "U+1F40",
      "U+1F41", "U+1F42", "U+1F43", "U+1F44", "U+1F45", "U+1F51", "U+1F53",
      "U+1F55", "U+1F57", "U+1F60", "U+1F61", "U+1F62", "U+1F63", "U+1F64",
      "U+1F65", "U+1F66", "U+1F67", "U+1F70", "U+1F71", "U+1F72", "U+1F73",
      "U+1F74", "U+1F75", "U+1F76", "U+1F77", "U+1F78", "U+1F79", "U+1F7A",
      "U+1F7B", "U+1F7C", "U+1F7D", "U+1F80", "U+1F81", "U+1F82", "U+1F83",
      "U+1F84", "U+1F85", "U+1F86", "U+1F87", "U+1F90", "U+1F91", "U+1F92",
      "U+1F93", "U+1F94", "U+1F95", "U+1F96", "U+1F97", "U+1FA0", "U+1FA1",
      "U+1FA2", "U+1FA3", "U+1FA4", "U+1FA5", "U+1FA6", "U+1FA7", "U+1FB0",
      "U+1FB1", "U+1FB3", "U+1FBE", "U+1FC3", "U+1FD0", "U+1FD1", "U+1FE0",
      "U+1FE1", "U+1FE5", "U+1FF3", "U+214E", "U+2170", "U+2171", "U+2172",
      "U+2173", "U+2174", "U+2175", "U+2176", "U+2177", "U+2178", "U+2179",
      "U+217A", "U+217B", "U+217C", "U+217D", "U+217E", "U+217F", "U+2184",
      "U+24D0", "U+24D1", "U+24D2", "U+24D3", "U+24D4", "U+24D5", "U+24D6",
      "U+24D7", "U+24D8", "U+24D9", "U+24DA", "U+24DB", "U+24DC", "U+24DD",
      "U+24DE", "U+24DF", "U+24E0", "U+24E1", "U+24E2", "U+24E3", "U+24E4",
      "U+24E5", "U+24E6", "U+24E7", "U+24E8", "U+24E9", "U+2C30", "U+2C31",
      "U+2C32", "U+2C33", "U+2C34", "U+2C35", "U+2C36", "U+2C37", "U+2C38",
      "U+2C39", "U+2C3A", "U+2C3B", "U+2C3C", "U+2C3D", "U+2C3E", "U+2C3F",
      "U+2C40", "U+2C41", "U+2C42", "U+2C43", "U+2C44", "U+2C45", "U+2C46",
      "U+2C47", "U+2C48", "U+2C49", "U+2C4A", "U+2C4B", "U+2C4C", "U+2C4D",
      "U+2C4E", "U+2C4F", "U+2C50", "U+2C51", "U+2C52", "U+2C53", "U+2C54",
      "U+2C55", "U+2C56", "U+2C57", "U+2C58", "U+2C59", "U+2C5A", "U+2C5B",
      "U+2C5C", "U+2C5D", "U+2C5E", "U+2C61", "U+2C65", "U+2C66", "U+2C68",
      "U+2C6A", "U+2C6C", "U+2C73", "U+2C76", "U+2C81", "U+2C83", "U+2C85",
      "U+2C87", "U+2C89", "U+2C8B", "U+2C8D", "U+2C8F", "U+2C91", "U+2C93",
      "U+2C95", "U+2C97", "U+2C99", "U+2C9B", "U+2C9D", "U+2C9F", "U+2CA1",
      "U+2CA3", "U+2CA5", "U+2CA7", "U+2CA9", "U+2CAB", "U+2CAD", "U+2CAF",
      "U+2CB1", "U+2CB3", "U+2CB5", "U+2CB7", "U+2CB9", "U+2CBB", "U+2CBD",
      "U+2CBF", "U+2CC1", "U+2CC3", "U+2CC5", "U+2CC7", "U+2CC9", "U+2CCB",
      "U+2CCD", "U+2CCF", "U+2CD1", "U+2CD3", "U+2CD5", "U+2CD7", "U+2CD9",
      "U+2CDB", "U+2CDD", "U+2CDF", "U+2CE1", "U+2CE3", "U+2CEC", "U+2CEE",
      "U+2CF3", "U+2D00", "U+2D01", "U+2D02", "U+2D03", "U+2D04", "U+2D05",
      "U+2D06", "U+2D07", "U+2D08", "U+2D09", "U+2D0A", "U+2D0B", "U+2D0C",
      "U+2D0D", "U+2D0E", "U+2D0F", "U+2D10", "U+2D11", "U+2D12", "U+2D13",
      "U+2D14", "U+2D15", "U+2D16", "U+2D17", "U+2D18", "U+2D19", "U+2D1A",
      "U+2D1B", "U+2D1C", "U+2D1D", "U+2D1E", "U+2D1F", "U+2D20", "U+2D21",
      "U+2D22", "U+2D23", "U+2D24", "U+2D25", "U+2D27", "U+2D2D", "U+A641",
      "U+A643", "U+A645", "U+A647", "U+A649", "U+A64B", "U+A64D", "U+A64F",
      "U+A651", "U+A653", "U+A655", "U+A657", "U+A659", "U+A65B", "U+A65D",
      "U+A65F", "U+A661", "U+A663", "U+A665", "U+A667", "U+A669", "U+A66B",
      "U+A66D", "U+A681", "U+A683", "U+A685", "U+A687", "U+A689", "U+A68B",
      "U+A68D", "U+A68F", "U+A691", "U+A693", "U+A695", "U+A697", "U+A699",
      "U+A69B", "U+A723", "U+A725", "U+A727", "U+A729", "U+A72B", "U+A72D",
      "U+A72F", "U+A733", "U+A735", "U+A737", "U+A739", "U+A73B", "U+A73D",
      "U+A73F", "U+A741", "U+A743", "U+A745", "U+A747", "U+A749", "U+A74B",
      "U+A74D", "U+A74F", "U+A751", "U+A753", "U+A755", "U+A757", "U+A759",
      "U+A75B", "U+A75D", "U+A75F", "U+A761", "U+A763", "U+A765", "U+A767",
      "U+A769", "U+A76B", "U+A76D", "U+A76F", "U+A77A", "U+A77C", "U+A77F",
      "U+A781", "U+A783", "U+A785", "U+A787", "U+A78C", "U+A791", "U+A793",
      "U+A794", "U+A797", "U+A799", "U+A79B", "U+A79D", "U+A79F", "U+A7A1",
      "U+A7A3", "U+A7A5", "U+A7A7", "U+A7A9", "U+A7B5", "U+A7B7", "U+A7B9",
      "U+A7BB", "U+A7BD", "U+A7BF", "U+A7C3", "U+A7C8", "U+A7CA", "U+A7F6",
      "U+AB53", "U+AB70", "U+AB71", "U+AB72", "U+AB73", "U+AB74", "U+AB75",
      "U+AB76", "U+AB77", "U+AB78", "U+AB79", "U+AB7A", "U+AB7B", "U+AB7C",
      "U+AB7D", "U+AB7E", "U+AB7F", "U+AB80", "U+AB81", "U+AB82", "U+AB83",
      "U+AB84", "U+AB85", "U+AB86", "U+AB87", "U+AB88", "U+AB89", "U+AB8A",
      "U+AB8B", "U+AB8C", "U+AB8D", "U+AB8E", "U+AB8F", "U+AB90", "U+AB91",
      "U+AB92", "U+AB93", "U+AB94", "U+AB95", "U+AB96", "U+AB97", "U+AB98",
      "U+AB99", "U+AB9A", "U+AB9B", "U+AB9C", "U+AB9D", "U+AB9E", "U+AB9F",
      "U+ABA0", "U+ABA1", "U+ABA2", "U+ABA3", "U+ABA4", "U+ABA5", "U+ABA6",
      "U+ABA7", "U+ABA8", "U+ABA9", "U+ABAA", "U+ABAB", "U+ABAC", "U+ABAD",
      "U+ABAE", "U+ABAF", "U+ABB0", "U+ABB1", "U+ABB2", "U+ABB3", "U+ABB4",
      "U+ABB5", "U+ABB6", "U+ABB7", "U+ABB8", "U+ABB9", "U+ABBA", "U+ABBB",
      "U+ABBC", "U+ABBD", "U+ABBE", "U+ABBF", "U+FF41", "U+FF42", "U+FF43",
      "U+FF44", "U+FF45", "U+FF46", "U+FF47", "U+FF48", "U+FF49", "U+FF4A",
      "U+FF4B", "U+FF4C", "U+FF4D", "U+FF4E", "U+FF4F", "U+FF50", "U+FF51",
      "U+FF52", "U+FF53", "U+FF54", "U+FF55", "U+FF56", "U+FF57", "U+FF58",
      "U+FF59", "U+FF5A", "U+10428", "U+10429", "U+1042A", "U+1042B",
      "U+1042C", "U+1042D", "U+1042E", "U+1042F", "U+10430", "U+10431",
      "U+10432", "U+10433", "U+10434", "U+10435", "U+10436", "U+10437",
      "U+10438", "U+10439", "U+1043A", "U+1043B", "U+1043C", "U+1043D",
      "U+1043E", "U+1043F", "U+10440", "U+10441", "U+10442", "U+10443",
      "U+10444", "U+10445", "U+10446", "U+10447", "U+10448", "U+10449",
      "U+1044A", "U+1044B", "U+1044C", "U+1044D", "U+1044E", "U+1044F",
      "U+104D8", "U+104D9", "U+104DA", "U+104DB", "U+104DC", "U+104DD",
      "U+104DE", "U+104DF", "U+104E0", "U+104E1", "U+104E2", "U+104E3",
      "U+104E4", "U+104E5", "U+104E6", "U+104E7", "U+104E8", "U+104E9",
      "U+104EA", "U+104EB", "U+104EC", "U+104ED", "U+104EE", "U+104EF",
      "U+104F0", "U+104F1", "U+104F2", "U+104F3", "U+104F4", "U+104F5",
      "U+104F6", "U+104F7", "U+104F8", "U+104F9", "U+104FA", "U+104FB",
      "U+10CC0", "U+10CC1", "U+10CC2", "U+10CC3", "U+10CC4", "U+10CC5",
      "U+10CC6", "U+10CC7", "U+10CC8", "U+10CC9", "U+10CCA", "U+10CCB",
      "U+10CCC", "U+10CCD", "U+10CCE", "U+10CCF", "U+10CD0", "U+10CD1",
      "U+10CD2", "U+10CD3", "U+10CD4", "U+10CD5", "U+10CD6", "U+10CD7",
      "U+10CD8", "U+10CD9", "U+10CDA", "U+10CDB", "U+10CDC", "U+10CDD",
      "U+10CDE", "U+10CDF", "U+10CE0", "U+10CE1", "U+10CE2", "U+10CE3",
      "U+10CE4", "U+10CE5", "U+10CE6", "U+10CE7", "U+10CE8", "U+10CE9",
      "U+10CEA", "U+10CEB", "U+10CEC", "U+10CED", "U+10CEE", "U+10CEF",
      "U+10CF0", "U+10CF1", "U+10CF2", "U+118C0", "U+118C1", "U+118C2",
      "U+118C3", "U+118C4", "U+118C5", "U+118C6", "U+118C7", "U+118C8",
      "U+118C9", "U+118CA", "U+118CB", "U+118CC", "U+118CD", "U+118CE",
      "U+118CF", "U+118D0", "U+118D1", "U+118D2", "U+118D3", "U+118D4",
      "U+118D5", "U+118D6", "U+118D7", "U+118D8", "U+118D9", "U+118DA",
      "U+118DB", "U+118DC", "U+118DD", "U+118DE", "U+118DF", "U+16E60",
      "U+16E61", "U+16E62", "U+16E63", "U+16E64", "U+16E65", "U+16E66",
      "U+16E67", "U+16E68", "U+16E69", "U+16E6A", "U+16E6B", "U+16E6C",
      "U+16E6D", "U+16E6E", "U+16E6F", "U+16E70", "U+16E71", "U+16E72",
      "U+16E73", "U+16E74", "U+16E75", "U+16E76", "U+16E77", "U+16E78",
      "U+16E79", "U+16E7A", "U+16E7B", "U+16E7C", "U+16E7D", "U+16E7E",
      "U+16E7F", "U+1E922", "U+1E923", "U+1E924", "U+1E925", "U+1E926",
      "U+1E927", "U+1E928", "U+1E929", "U+1E92A", "U+1E92B", "U+1E92C",
      "U+1E92D", "U+1E92E", "U+1E92F", "U+1E930", "U+1E931", "U+1E932",
      "U+1E933", "U+1E934", "U+1E935", "U+1E936", "U+1E937", "U+1E938",
      "U+1E939", "U+1E93A", "U+1E93B", "U+1E93C", "U+1E93D", "U+1E93E",
      "U+1E93F", "U+1E940", "U+1E941", "U+1E942", "U+1E943">>

UnicodeUpper ==
    <<"U+039C", "À", "Á", "Â", "Ã", "Ä", "Å", "Æ", "Ç", "È", "É", "Ê", "Ë",
      "Ì", "Í", "Î", "Ï", "Ð", "Ñ", "Ò", "Ó", "Ô", "Õ", "Ö", "Ø", "Ù", "Ú",
      "Û", "Ü", "Ý", "Þ", "U+0178", "U+0100", "U+0102", "U+0104", "U+0106",
      "U+0108", "U+010A", "U+010C", "U+010E", "U+0110", "U+0112", "U+0114",
      "U+0116", "U+0118", "U+011A", "U+011C", "U+011E", "U+0120", "U+0122",
      "U+0124", "U+0126", "U+0128", "U+012A", "U+012C", "U+012E", "I",
      "U+0132", "U+0134", "U+0136", "U+0139", "U+013B", "U+013D", "U+013F",
      "U+0141", "U+0143", "U+0145", "U+0147", "U+014A", "U+014C", "U+014E",
      "U+0150", "U+0152", "U+0154", "U+0156", "U+0158", "U+015A", "U+015C",
      "U+015E", "U+0160", "U+0162", "U+0164", "U+0166", "U+0168", "U+016A",
      "U+016C", "U+016E", "U+0170", "U+0172", "U+0174", "U+0176", "U+0179",
      "U+017B", "U+017D", "S", "U+0243", "U+0182", "U+0184", "U+0187",
      "U+018B", "U+0191", "U+01F6", "U+0198", "U+023D", "U+0220", "U+01A0",
      "U+01A2", "U+01A4", "U+01A7", "U+01AC", "U+01AF", "U+01B3", "U+01B5",
      "U+01B8", "U+01BC", "U+01F7", "U+01C4", "U+01C4", "U+01C7", "U+01C7",
      "U+01CA", "U+01CA", "U+01CD", "U+01CF", "U+01D1", "U+01D3", "U+01D5",
      "U+01D7", "U+01D9", "U+01DB", "U+018E", "U+01DE", "U+01E0", "U+01E2",
      "U+01E4", "U+01E6", "U+01E8", "U+01EA", "U+01EC", "U+01EE", "U+01F1",
      "U+01F1", "U+01F4", "U+01F8", "U+01FA", "U+01FC", "U+01FE", "U+0200",
      "U+0202", "U+0204", "U+0206", "U+0208", "U+020A", "U+020C", "U+020E",
      "U+0210", "U+0212", "U+0214", "U+0216", "U+0218", "U+021A", "U+021C",
      "U+021E", "U+0222", "U+0224", "U+0226", "U+0228", "U+022A", "U+022C",
      "U+022E", "U+0230", "U+0232", "U+023B", "U+2C7E", "U+2C7F", "U+0241",
      "U+0246", "U+0248", "U+024A", "U+024C", "U+024E", "U+2C6F", "U+2C6D",
      "U+2C70", "U+0181", "U+0186", "U+0189", "U+018A", "U+018F", "U+0190",
      "U+A7AB", "U+0193", "U+A7AC", "U+0194", "U+A78D", "U+A7AA", "U+0197",
      "U+0196", "U+A7AE", "U+2C62", "U+A7AD", "U+019C", "U+2C6E", "U+019D",
      "U+019F", "U+2C64", "U+01A6", "U+A7C5", "U+01A9", "U+A7B1", "U+01AE",
      "U+0244", "U+01B1", "U+01B2", "U+0245", "U+01B7", "U+A7B2", "U+A7B0",
      "U+0399", "U+0370", "U+0372", "U+0376", "U+03FD", "U+03FE", "U+03FF",
      "U+0386", "U+0388", "U+0389", "U+038A", "U+0391", "U+0392", "U+0393",
      "U+0394", "U+0395", "U+0396", "U+0397", "U+0398", "U+0399", "U+039A",
      "U+039B", "U+039C", "U+039D", "U+039E", "U+039F", "U+03A0", "U+03A1",
      "U+03A3", "U+03A3", "U+03A4", "U+03A5", "U+03A6", "U+03A7", "U+03A8",
      "U+03A9", "U+03AA", "U+03AB", "U+038C", "U+038E", "U+038F", "U+0392",
      "U+0398", "U+03A6", "U+03A0", "U+03CF", "U+03D8", "U+03DA", "U+03DC",
      "U+03DE", "U+03E0", "U+03E2", "U+03E4", "U+03E6", "U+03E8", "U+03EA",
      "U+03EC", "U+03EE", "U+039A", "U+03A1", "U+03F9", "U+037F", "U+0395",
      "U+03F7", "U+03FA", "U+0410", "U+0411", "U+0412", "U+0413", "U+0414",
      "U+0415", "U+0416", "U+0417", "U+0418", "U+0419", "U+041A", "U+041B",
      "U+041C", "U+041D", "U+041E", "U+041F", "U+0420", "U+0421", "U+0422",
      "U+0423", "U+0424", "U+0425", "U+0426", "U+0427", "U+0428", "U+0429",
      "U+042A", "U+042B", "U+042C", "U+042D", "U+042E", "U+042F", "U+0400",
      "U+0401", "U+0402", "U+0403", "U+0404", "U+0405", "U+0406", "U+0407",
      "U+0408", "U+0409", "U+040A", "U+040B", "U+040C", "U+040D", "U+040E",
      "U+040F", "U+0460", "U+0462", "U+0464", "U+0466", "U+0468", "U+046A",
      "U+046C", "U+046E", "U+0470", "U+0472", "U+0474", "U+0476", "U+0478",
      "U+047A", "U+047C", "U+047E", "U+0480", "U+048A", "U+048C", "U+048E",
      "U+0490", "U+0492", "U+0494", "U+0496", "U+0498", "U+049A", "U+049C",
      "U+049E", "U+04A0", "U+04A2", "U+04A4", "U+04A6", "U+04A8", "U+04AA",
      "U+04AC", "U+04AE", "U+04B0", "U+04B2", "U+04B4", "U+04B6", "U+04B8",
      "U+04BA", "U+04BC", "U+04BE", "U+04C1", "U+04C3", "U+04C5", "U+04C7",
      "U+04C9", "U+04CB", "U+04CD", "U+04C0", "U+04D0", "U+04D2", "U+04D4",
      "U+04D6", "U+04D8", "U+04DA", "U+04DC", "U+04DE", "U+04E0", "U+04E2",
      "U+04E4", "U+04E6", "U+04E8", "U+04EA", "U+04EC", "U+04EE", "U+04F0",
      "U+04F2", "U+04F4", "U+04F6", "U+04F8", "U+04FA", "U+04FC", "U+04FE",
      "U+0500", "U+0502", "U+0504", "U+0506", "U+0508", "U+050A", "U+050C",
      "U+050E", "U+0510", "U+0512", "U+0514", "U+0516", "U+0518", "U+051A",
      "U+051C", "U+051E", "U+0520", "U+0522", "U+0524", "U+0526", "U+0528",
      "U+052A", "U+052C", "U+052E", "U+0531", "U+0532", "U+0533", "U+0534",
      "U+0535", "U+0536", "U+0537", "U+0538", "U+0539", "U+053A", "U+053B",
      "U+053C", "U+053D", "U+053E", "U+053F", "U+0540", "U+0541", "U+0542",
      "U+0543", "U+0544", "U+0545", "U+0546", "U+0547", "U+0548", "U+0549",
      "U+054A", "U+054B", "U+054C", "U+054D", "U+054E", "U+054F", "U+0550",
      "U+0551", "U+0552", "U+0553", "U+0554", "U+0555", "U+0556", "U+1C90",
      "U+1C91", "U+1C92", "U+1C93", "U+1C94", "U+1C95", "U+1C96", "U+1C97",
      "U+1C98", "U+1C99", "U+1C9A", "U+1C9B", "U+1C9C", "U+1C9D", "U+1C9E",
      "U+1C9F", "U+1CA0", "U+1CA1", "U+1CA2", "U+1CA3", "U+1CA4", "U+1CA5",
      "U+1CA6", "U+1CA7", "U+1CA8", "U+1CA9", "U+1CAA", "U+1CAB", "U+1CAC",
      "U+1CAD", "U+1CAE", "U+1CAF", "U+1CB0", "U+1CB1", "U+1CB2", "U+1CB3",
      "U+1CB4", "U+1CB5", "U+1CB6", "U+1CB7", "U+1CB8", "U+1CB9", "U+1CBA",
      "U+1CBD", "U+1CBE", "U+1CBF", "U+13F0", "U+13F1", "U+13F2", "U+13F3",
      "U+13F4", "U+13F5", "U+0412", "U+0414", "U+041E", "U+0421", "U+0422",
      "U+0422", "U+042A", "U+0462", "U+A64A", "U+A77D", "U+2C63", "U+A7C6",
      "U+1E00", "U+1E02", "U+1E04", "U+1E06", "U+1E08", "U+1E0A", "U+1E0C",
      "U+1E0E", "U+1E10", "U+1E12", "U+1E14", "U+1E16", "U+1E18", "U+1E1A",
      "U+1E1C", "U+1E1E", "U+1E20", "U+1E22", "U+1E24", "U+1E26", "U+1E28",
      "U+1E2A", "U+1E2C", "U+1E2E", "U+1E30", "U+1E32", "U+1E34", "U+1E36",
      "U+1E38", "U+1E3A", "U+1E3C", "U+1E3E", "U+1E40", "U+1E42", "U+1E44",
      "U+1E46", "U+1E48", "U+1E4A", "U+1E4C", "U+1E4E", "U+1E50", "U+1E52",
      "U+1E54", "U+1E56", "U+1E58", "U+1E5A", "U+1E5C", "U+1E5E", "U+1E60",
      "U+1E62", "U+1E64", "U+1E66", "U+1E68", "U+1E6A", "U+1E6C", "U+1E6E",
      "U+1E70", "U+1E72", "U+1E74", "U+1E76", "U+1E78", "U+1E7A", "U+1E7C",
      "U+1E7E", "U+1E80", "U+1E82", "U+1E84", "U+1E86", "U+1E88", "U+1E8A",
      "U+1E8C", "U+1E8E", "U+1E90", "U+1E92", "U+1E94", "U+1E60", "U+1EA0",
      "U+1EA2", "U+1EA4", "U+1EA6", "U+1EA8", "U+1EAA", "U+1EAC", "U+1EAE",
      "U+1EB0", "U+1EB2", "U+1EB4", "U+1EB6", "U+1EB8", "U+1EBA", "U+1EBC",
      "U+1EBE", "U+1EC0", "U+1EC2", "U+1EC4", "U+1EC6", "U+1EC8", "U+1ECA",
      "U+1ECC", "U+1ECE", "U+1ED0", "U+1ED2", "U+1ED4", "U+1ED6", "U+1ED8",
      "U+1EDA", "U+1EDC", "U+1EDE", "U+1EE0", "U+1EE2", "U+1EE4", "U+1EE6",
      "U+1EE8", "U+1EEA", "U+1EEC", "U+1EEE", "U+1EF0", "U+1EF2", "U+1EF4",
      "U+1EF6", "U+1EF8", "U+1EFA", "U+1EFC", "U+1EFE", "U+1F08", "U+1F09",
      "U+1F0A", "U+1F0B", "U+1F0C", "U+1F0D", "U+1F0E", "U+1F0F", "U+1F18",
      "U+1F19", "U+1F1A", "U+1F1B", "U+1F1C", "U+1F1D", "U+1F28", "U+1F29",
      "U+1F2A", "U+1F2B", "U+1F2C", "U+1F2D", "U+1F2E", "U+1F2F", "U+1F38",
      "U+1F39", "U+1F3A", "U+1F3B", "U+1F3C", "U+1F3D", "U+1F3E", "U+1F3F",
      "U+1F48", "U+1F49", "U+1F4A", "U+1F4B", "U+1F4C", "U+1F4D", "U+1F59",
      "U+1F5B", "U+1F5D", "U+1F5F", "U+1F68", "U+1F69", "U+1F6A", "U+1F6B",
      "U+1F6C", "U+1F6D", "U+1F6E", "U+1F6F", "U+1FBA", "U+1FBB", "U+1FC8",
      "U+1FC9", "U+1FCA", "U+1FCB", "U+1FDA", "U+1FDB", "U+1FF8", "U+1FF9",
      "U+1FEA", "U+1FEB", "U+1FFA", "U+1FFB", "U+1F88", "U+1F89", "U+1F8A",
      "U+1F8B", "U+1F8C", "U+1F8D", "U+1F8E", "U+1F8F", "U+1F98", "U+1F99",
      "U+1F9A", "U+1F9B", "U+1F9C", "U+1F9D", "U+1F9E", "U+1F9F", "U+1FA8",
      "U+1FA9", "U+1FAA", "U+1FAB", "U+1FAC", "U+1FAD", "U+1FAE", "U+1FAF",
      "U+1FB8", "U+1FB9", "U+1FBC", "U+0399", "U+1FCC", "U+1FD8", "U+1FD9",
      "U+1FE8", "U+1FE9", "U+1FEC", "U+1FFC", "U+2132", "U+2160", "U+2161",
      "U+2162", "U+2163", "U+2164", "U+2165", "U+2166", "U+2167", "U+2168",
      "U+2169", "U+216A", "U+216B", "U+216C", "U+216D", "U+216E", "U+216F",
      "U+2183", "U+24B6", "U+24B7", "U+24B8", "U+24B9", "U+24BA", "U+24BB",
      "U+24BC", "U+24BD", "U+24BE", "U+24BF", "U+24C0", "U+24C1", "U+24C2",
      "U+24C3", "U+24C4", "U+24C5", "U+24C6", "U+24C7", "U+24C8", "U+24C9",
      "U+24CA", "U+24CB", "U+24CC", "U+24CD", "U+24CE", "U+24CF", "U+2C00",
      "U+2C01", "U+2C02", "U+2C03", "U+2C04", "U+2C05", "U+2C06", "U+2C07",
      "U+2C08", "U+2C09", "U+2C0A", "U+2C0B", "U+2C0C", "U+2C0D", "U+2C0E",
      "U+2C0F", "U+2C10", "U+2C11", "U+2C12", "U+2C13", "U+2C14", "U+2C15",
      "U+2C16", "U+2C17", "U+2C18", "U+2C19", "U+2C1A", "U+2C1B", "U+2C1C",
      "U+2C1D", "U+2C1E", "U+2C1F", "U+2C20", "U+2C21", "U+2C22", "U+2C23",
      "U+2C24", "U+2C25", "U+2C26", "U+2C27", "U+2C28", "U+2C29", "U+2C2A",
      "U+2C2B", "U+2C2C", "U+2C2D", "U+2C2E", "U+2C60", "U+023A", "U+023E",
      "U+2C67", "U+2C69", "U+2C6B", "U+2C72", "U+2C75", "U+2C80", "U+2C82",
      "U+2C84", "U+2C86", "U+2C88", "U+2C8A", "U+2C8C", "U+2C8E", "U+2C90",
      "U+2C92", "U+2C94", "U+2C96", "U+2C98", "U+2C9A", "U+2C9C", "U+2C9E",
      "U+2CA0", "U+2CA2", "U+2CA4", "U+2CA6", "U+2CA8", "U+2CAA", "U+2CAC",
      "U+2CAE", "U+2CB0", "U+2CB2", "U+2CB4", "U+2CB6", "U+2CB8", "U+2CBA",
      "U+2CBC", "U+2CBE", "U+2CC0", "U+2CC2", "U+2CC4", "U+2CC6", "U+2CC8",
      "U+2CCA", "U+2CCC", "U+2CCE", "U+2CD0", "U+2CD2", "U+2CD4", "U+2CD6",
      "U+2CD8", "U+2CDA", "U+2CDC", "U+2CDE", "U+2CE0", "U+2CE2", "U+2CEB",
      "U+2CED", "U+2CF2", "U+10A0", "U+10A1", "U+10A2", "U+10A3", "U+10A4",
      "U+10A5", "U+10A6", "U+10A7", "U+10A8", "U+10A9", "U+10AA", "U+10AB",
      "U+10AC", "U+10AD", "U+10AE", "U+10AF", "U+10B0", "U+10B1", "U+10B2",
      "U+10B3", "U+10B4", "U+10B5", "U+10B6", "U+10B7", "U+10B8", "U+10B9",
      "U+10BA", "U+10BB", "U+10BC", "U+10BD", "U+10BE", "U+10BF", "U+10C0",
      "U+10C1", "U+10C2", "U+10C3", "U+10C4", "U+10C5", "U+10C7", "U+10CD",
      "U+A640", "U+A642", "U+A644", "U+A646", "U+A648", "U+A64A", "U+A64C",
      "U+A64E", "U+A650", "U+A652", "U+A654", "U+A656", "U+A658", "U+A65A",
      "U+A65C", "U+A65E", "U+A660", "U+A662", "U+A664", "U+A666", "U+A668",
      "U+A66A", "U+A66C", "U+A680", "U+A682", "U+A684", "U+A686", "U+A688",
      "U+A68A", "U+A68C", "U+A68E", "U+A690", "U+A692", "U+A694", "U+A696",
      "U+A698", "U+A69A", "U+A722", "U+A724", "U+A726", "U+A728", "U+A72A",
      "U+A72C", "U+A72E", "U+A732", "U+A734", "U+A736", "U+A738", "U+A73A",
      "U+A73C", "U+A73E", "U+A740", "U+A742", "U+A744", "U+A746", "U+A748",
      "U+A74A", "U+A74C", "U+A74E", "U+A750", "U+A752", "U+A754", "U+A756",
      "U+A758", "U+A75A", "U+A75C", "U+A75E", "U+A760", "U+A762", "U+A764",
      "U+A766", "U+A768", "U+A76A", "U+A76C", "U+A76E", "U+A779", "U+A77B",
      "U+A77E", "U+A780", "U+A782", "U+A784", "U+A786", "U+A78B", "U+A790",
      "U+A792", "U+A7C4", "U+A796", "U+A798", "U+A79A", "U+A79C", "U+A79E",
      "U+A7A0", "U+A7A2", "U+A7A4", "U+A7A6", "U+A7A8", "U+A7B4", "U+A7B6",
      "U+A7B8", "U+A7BA", "U+A7BC", "U+A7BE", "U+A7C2", "U+A7C7", "U+A7C9",
      "U+A7F5", "U+A7B3", "U+13A0", "U+13A1", "U+13A2", "U+13A3", "U+13A4",
      "U+13A5", "U+13A6", "U+13A7", "U+13A8", "U+13A9", "U+13AA", "U+13AB",
      "U+13AC", "U+13AD", "U+13AE", "U+13AF", "U+13B0", "U+13B1", "U+13B2",
      "U+13B3", "U+13B4", "U+13B5", "U+13B6", "U+13B7", "U+13B8", "U+13B9",
      "U+13BA", "U+13BB", "U+13BC", "U+13BD", "U+13BE", "U+13BF", "U+13C0",
      "U+13C1", "U+13C2", "U+13C3", "U+13C4", "U+13C5", "U+13C6", "U+13C7",
      "U+13C8", "U+13C9", "U+13CA", "U+13CB", "U+13CC", "U+13CD", "U+13CE",
      "U+13CF", "U+13D0", "U+13D1", "U+13D2", "U+13D3", "U+13D4", "U+13D5",
      "U+13D6", "U+13D7", "U+13D8", "U+13D9", "U+13DA", "U+13DB", "U+13DC",
      "U+13DD", "U+13DE", "U+13DF", "U+13E0", "U+13E1", "U+13E2", "U+13E3",
      "U+13E4", "U+13E5", "U+13E6", "U+13E7", "U+13E8", "U+13E9", "U+13EA",
      "U+13EB", "U+13EC", "U+13ED", "U+13EE", "U+13EF", "U+FF21", "U+FF22",
      "U+FF23", "U+FF24", "U+FF25", "U+FF26", "U+FF27", "U+FF28", "U+FF29",
      "U+FF2A", "U+FF2B", "U+FF2C", "U+FF2D", "U+FF2E", "U+FF2F", "U+FF30",
      "U+FF31", "U+FF32", "U+FF33", "U+FF34", "U+FF35", "U+FF36", "U+FF37",
      "U+FF38", "U+FF39", "U+FF3A", "U+10400", "U+10401", "U+10402",
      "U+10403", "U+10404", "U+10405", "U+10406", "U+10407", "U+10408",
      "U+10409", "U+1040A", "U+1040B", "U+1040C", "U+1040D", "U+1040E",
      "U+1040F", "U+10410", "U+10411", "U+10412", "U+10413", "U+10414",
      "U+10415", "U+10416", "U+10417", "U+10418", "U+10419", "U+1041A",
      "U+1041B", "U+1041C", "U+1041D", "U+1041E", "U+1041F", "U+10420",
      "U+10421", "U+10422", "U+10423", "U+10424", "U+10425", "U+10426",
      "U+10427", "U+104B0", "U+104B1", "U+104B2", "U+104B3", "U+104B4",
      "U+104B5", "U+104B6", "U+104B7", "U+104B8", "U+104B9", "U+104BA",
      "U+104BB", "U+104BC", "U+104BD", "U+104BE", "U+104BF", "U+104C0",
      "U+104C1", "U+104C2", "U+104C3", "U+104C4", "U+104C5", "U+104C6",
      "U+104C7", "U+104C8", "U+104C9", "U+104CA", "U+104CB", "U+104CC",
      "U+104CD", "U+104CE", "U+104CF", "U+104D0", "U+104D1", "U+104D2",
      "U+104D3", "U+10C80", "U+10C81", "U+10C82", "U+10C83", "U+10C84",
      "U+10C85", "U+10C86", "U+10C87", "U+10C88", "U+10C89", "U+10C8A",
      "U+10C8B", "U+10C8C", "U+10C8D", "U+10C8E", "U+10C8F", "U+10C90",
      "U+10C91", "U+10C92", "U+10C93", "U+10C94", "U+10C95", "U+10C96",
      "U+10C97", "U+10C98", "U+10C99", "U+10C9A", "U+10C9B", "U+10C9C",
      "U+10C9D", "U+10C9E", "U+10C9F", "U+10CA0", "U+10CA1", "U+10CA2",
      "U+10CA3", "U+10CA4", "U+10CA5", "U+10CA6", "U+10CA7", "U+10CA8",
      "U+10CA9", "U+10CAA", "U+10CAB", "U+10CAC", "U+10CAD", "U+10CAE",
      "U+10CAF", "U+10CB0", "U+10CB1", "U+10CB2", "U+118A0", "U+118A1",
      "U+118A2", "U+118A3", "U+118A4", "U+118A5", "U+118A6", "U+118A7",
      "U+118A8", "U+118A9", "U+118AA", "U+118AB", "U+118AC", "U+118AD",
      "U+118AE", "U+118AF", "U+118B0", "U+118B1", "U+118B2", "U+118B3",
      "U+118B4", "U+118B5", "U+118B6", "U+118B7", "U+118B8", "U+118B9",
      "U+118BA", "U+118BB", "U+118BC", "U+118BD", "U+118BE", "U+118BF",
      "U+16E40", "U+16E41", "U+16E42", "U+16E43", "U+16E44", "U+16E45",
      "U+16E46", "U+16E47", "U+16E48", "U+16E49", "U+16E4A", "U+16E4B",
      "U+16E4C", "U+16E4D", "U+16E4E", "U+16E4F", "U+16E50", "U+16E51",
      "U+16E52", "U+16E53", "U+16E54", "U+16E55", "U+16E56", "U+16E57",
      "U+16E58", "U+16E59", "U+16E5A", "U+16E5B", "U+16E5C", "U+16E5D",
      "U+16E5E", "U+16E5F", "U+1E900", "U+1E901", "U+1E902", "U+1E903",
      "U+1E904", "U+1E905", "U+1E906", "U+1E907", "U+1E908", "U+1E909",
      "U+1E90A", "U+1E90B", "U+1E90C", "U+1E90D", "U+1E90E", "U+1E90F",
      "U+1E910", "U+1E911", "U+1E912", "U+1E913", "U+1E914", "U+1E915",
      "U+1E916", "U+1E917", "U+1E918", "U+1E919", "U+1E91A", "U+1E91B",
      "U+1E91C", "U+1E91D", "U+1E91E", "U+1E91F", "U+1E920", "U+1E921">>

UnicodeToUpper ==
    [ch \in {UnicodeLower[k] : k \in 1..Len(UnicodeLower)} |->
        UnicodeUpper[CHOOSE k \in 1..Len(UnicodeLower) : UnicodeLower[k] = ch]]

\* A byte that is not part of a valid UTF-8 encoding, written by its value.
InvalidUTF8 ==
    {"0x80", "0x81", "0x82", "0x83", "0x84", "0x85", "0x86", "0x87",
      "0x88", "0x89", "0x8A", "0x8B", "0x8C", "0x8D", "0x8E", "0x8F",
      "0x90", "0x91", "0x92", "0x93", "0x94", "0x95", "0x96", "0x97",
      "0x98", "0x99", "0x9A", "0x9B", "0x9C", "0x9D", "0x9E", "0x9F",
      "0xA0", "0xA1", "0xA2", "0xA3", "0xA4", "0xA5", "0xA6", "0xA7",
      "0xA8", "0xA9", "0xAA", "0xAB", "0xAC", "0xAD", "0xAE", "0xAF",
      "0xB0", "0xB1", "0xB2", "0xB3", "0xB4", "0xB5", "0xB6", "0xB7",
      "0xB8", "0xB9", "0xBA", "0xBB", "0xBC", "0xBD", "0xBE", "0xBF",
      "0xC0", "0xC1", "0xC2", "0xC3", "0xC4", "0xC5", "0xC6", "0xC7",
      "0xC8", "0xC9", "0xCA", "0xCB", "0xCC", "0xCD", "0xCE", "0xCF",
      "0xD0", "0xD1", "0xD2", "0xD3", "0xD4", "0xD5", "0xD6", "0xD7",
      "0xD8", "0xD9", "0xDA", "0xDB", "0xDC", "0xDD", "0xDE", "0xDF",
      "0xE0", "0xE1", "0xE2", "0xE3", "0xE4", "0xE5", "0xE6", "0xE7",
      "0xE8", "0xE9", "0xEA", "0xEB", "0xEC", "0xED", "0xEE", "0xEF",
      "0xF0", "0xF1", "0xF2", "0xF3", "0xF4", "0xF5", "0xF6", "0xF7",
      "0xF8", "0xF9", "0xFA", "0xFB", "0xFC", "0xFD", "0xFE", "0xFF"}

\* strings.ToUpper: every rune mapped by unicode.ToUpper, and every byte
\* that is not valid UTF-8 replaced by U+FFFD (strings.Map).
ToUpper(str) ==
    [k \in 1..Len(str) |->
        IF str[k] \in DOMAIN LowerToUpper THEN LowerToUpper[str[k]]
        ELSE IF str[k] \in DOMAIN UnicodeToUpper THEN UnicodeToUpper[str[k]]
        ELSE IF str[k] \in InvalidUTF8 THEN "U+FFFD"
        ELSE str[k]]

Digits == <<"0", "1", "2", "3", "4", "5", "6", "7", "8", "9">>

Base64Alphabet ==
    DOMAIN LowerToUpper \cup {LowerToUpper[ch] : ch \in DOMAIN LowerToUpper}
    \cup {Digits[k] : k \in 1..Len(Digits)} \cup {"+", "/"}

\* Whether DecodeString returns no error: the carriage returns and line
\* feeds are skipped, and what is left is whole quanta of four characters of
\* the alphabet, the last one padded with at most two "=".
IsBase64(str) ==
    LET text == SelectSeq(str, LAMBDA ch : ch \notin {"\r", "\n"})
        len == Len(text)
        pad == IF len > 0 /\ text[len] = "="
               THEN IF len > 1 /\ text[len - 1] = "=" THEN 2 ELSE 1
               ELSE 0
    IN  /\ len % 4 = 0
        /\ \A k \in 1..(len - pad) : text[k] \in Base64Alphabet

\* The alphabet in the order of its values 0..63.
Base64Chars ==
    <<"A", "B", "C", "D", "E", "F", "G", "H", "I", "J", "K", "L", "M", "N",
      "O", "P", "Q", "R", "S", "T", "U", "V", "W", "X", "Y", "Z", "a", "b",
      "c", "d", "e", "f", "g", "h", "i", "j", "k", "l", "m", "n", "o", "p",
      "q", "r", "s", "t", "u", "v", "w", "x", "y", "z", "0", "1", "2", "3",
      "4", "5", "6", "7", "8", "9", "+", "/">>

Base64Value(ch) ==
    IF ch = "=" THEN 0
    ELSE (CHOOSE k \in 1..Len(Base64Chars) : Base64Chars[k] = ch) - 1

\* The bytes of the quanta of text from character k on: three for a
\* quantum, two when it ends with "=", one when it ends with "==" (the
\* bits left over are dropped).
RECURSIVE DecodeQuanta(_, _)
DecodeQuanta(text, k) ==
    IF k + 3 > Len(text) THEN <<>>
    ELSE
    LET v1 == Base64Value(text[k])
        v2 == Base64Value(text[k + 1])
        v3 == Base64Value(text[k + 2])
        v4 == Base64Value(text[k + 3])
        b1 == v1 * 4 + (v2 \div 16)
        b2 == (v2 % 16) * 16 + (v3 \div 4)
        b3 == (v3 % 4) * 64 + v4
    IN  (IF text[k + 2] = "=" THEN <<b1>>
         ELSE IF text[k + 3] = "=" THEN <<b1, b2>>
         ELSE <<b1, b2, b3>>)
        \o DecodeQuanta(text, k + 4)

\* The bytes DecodeString returns for a str it accepts.
DecodeString(str) ==
    DecodeQuanta(SelectSeq(str, LAMBDA ch : ch \notin {"\r", "\n"}), 1)

\* The decimal digits of n >= 0.
RECURSIVE FormatNat(_)
FormatNat(n) ==
    IF n < 10 THEN <<Digits[n + 1]>>
    ELSE FormatNat(n \div 10) \o <<Digits[(n % 10) + 1]>>

\* strconv.FormatInt(n, 10)
FormatInt(n) == IF n < 0 THEN <<"-">> \o FormatNat(-n) ELSE FormatNat(n)

---------------------------------------------------------------------------
(* validateConfig *)

\* The loop without its map of the pairs seen: upper-case every pair.
RECURSIVE globalPairsLoop_keepAll(_, _, _)
globalPairsLoop_keepAll(in, k, pairs) ==
    IF k > Len(in) THEN pairs
    ELSE globalPairsLoop_keepAll(in, k + 1, Append(pairs, ToUpper(in[k])))

\* The loop over gx.Pairs: upper-case, keep the first occurrence.
RECURSIVE globalPairsLoop(_, _, _)
globalPairsLoop(in, k, pairs) ==
    IF k > Len(in) THEN pairs
    ELSE LET pair == ToUpper(in[k])
         IN  IF InSeq(pair, pairs) THEN globalPairsLoop(in, k + 1, pairs)
             ELSE globalPairsLoop(in, k + 1, Append(pairs, pair))

\* The loop without its look-up in globalPairs: upper-case, keep the first
\* occurrence.
RECURSIVE channelPairsLoop_keepGlobal(_, _, _, _)
channelPairsLoop_keepGlobal(in, globalPairs, k, pairs) ==
    IF k > Len(in) THEN pairs
    ELSE LET pair == ToUpper(in[k])
         IN  IF ~InSeq(pair, pairs)
             THEN channelPairsLoop_keepGlobal(in, globalPairs, k + 1,
                                              Append(pairs, pair))
             ELSE channelPairsLoop_keepGlobal(in, globalPairs, k + 1, pairs)

\* The loop over c.Pairs: upper-case, drop the global pairs, keep the first
\* occurrence.
RECURSIVE channelPairsLoop(_, _, _, _)
channelPairsLoop(in, globalPairs, k, pairs) ==
    IF k > Len(in) THEN pairs
    ELSE LET pair == ToUpper(in[k])
         IN  IF ~InSeq(pair, globalPairs) /\ ~InSeq(pair, pairs)
             THEN channelPairsLoop(in, globalPairs, k + 1, Append(pairs, pair))
             ELSE channelPairsLoop(in, globalPairs, k + 1, pairs)

\* The case without its check of key, secret and passphrase.
publicChannelCase_noCredentials(c) ==
    IF c.UserName # ""
    THEN <<"cannot specify user_name for '%s' channel", c.Channel>>
    ELSE Nil

\* case "level2" (and "ticker" falling through): no identity fields.
publicChannelCase(c) ==
    IF c.UserName # ""
    THEN <<"cannot specify user_name for '%s' channel", c.Channel>>
    ELSE IF Len(c.Key) > 0 \/ Len(c.Secret) > 0 \/ c.Passphrase # ""
    THEN <<"cannot specify API credentials for '%s' channel", c.Channel>>
    ELSE Nil

\* The case without its check that the key is unique.
userChannelCase_noKeyUnique(c, users, byKey) ==
    IF c.UserName = "" THEN <<"no user_name for 'user' channel">>
    ELSE IF Len(c.Key) = 0
    THEN <<"no key specified for user '%s'", c.UserName>>
    ELSE IF ~IsBase64(c.Key) THEN <<"non-base64 key">>
    ELSE IF Len(c.Secret) = 0
    THEN <<"no secret specified for user '%s'", c.UserName>>
    ELSE IF ~IsBase64(c.Secret) THEN <<"non-base64 secret">>
    ELSE IF c.Passphrase = ""
    THEN <<"no passphrase specified for user '%s'", c.UserName>>
    ELSE IF c.UserName \in users THEN <<"user_name should be unique">>
    ELSE Nil

\* case "user", up to the two uniqueness checks.
userChannelCase(c, users, byKey) ==
    IF c.UserName = "" THEN <<"no user_name for 'user' channel">>
    ELSE IF Len(c.Key) = 0
    THEN <<"no key specified for user '%s'", c.UserName>>
    ELSE IF ~IsBase64(c.Key) THEN <<"non-base64 key">>
    ELSE IF Len(c.Secret) = 0
    THEN <<"no secret specified for user '%s'", c.UserName>>
    ELSE IF ~IsBase64(c.Secret) THEN <<"non-base64 secret">>
    ELSE IF c.Passphrase = ""
    THEN <<"no passphrase specified for user '%s'", c.UserName>>
    ELSE IF c.UserName \in users THEN <<"user_name should be unique">>
    ELSE IF c.Key \in DOMAIN byKey THEN <<"key should be unique">>
    ELSE Nil

\* The loop without its check that the channel has a pair to subscribe to.
RECURSIVE channelsLoop_noPairsCheck(_, _)
channelsLoop_noPairsCheck(st, i) ==
    IF i > Len(st.Channels)
    THEN [err |-> Nil, Channels |-> st.Channels, byKey |-> st.byKey]
    ELSE
    LET c == st.Channels[i]
        fail(e) == [err |-> e, Channels |-> st.Channels, byKey |-> st.byKey]
        pairs == channelPairsLoop(c.Pairs, st.Pairs, 1, <<>>)
        chans == [st.Channels EXCEPT ![i].Pairs = pairs]
        failSet(e) == [err |-> e, Channels |-> chans, byKey |-> st.byKey]
    IN  IF c.Channel = "" THEN fail(<<"not specified: channel">>)
        ELSE IF c.Channel = "ticker"
        THEN IF st.ticker THEN failSet(<<"channel 'ticker' declared twice">>)
             ELSE IF publicChannelCase(c) # Nil
             THEN failSet(publicChannelCase(c))
             ELSE channelsLoop_noPairsCheck([st EXCEPT !.Channels = chans,
                                          !.ticker = TRUE], i + 1)
        ELSE IF c.Channel = "level2"
        THEN IF st.level2 THEN failSet(<<"channel 'level2' declared twice">>)
             ELSE IF publicChannelCase(c) # Nil
             THEN failSet(publicChannelCase(c))
             ELSE channelsLoop_noPairsCheck([st EXCEPT !.Channels = chans,
                                          !.level2 = TRUE], i + 1)
        ELSE IF c.Channel = "user"
        THEN IF userChannelCase(c, st.users, st.byKey) # Nil
             THEN failSet(userChannelCase(c, st.users, st.byKey))
             ELSE channelsLoop_noPairsCheck(
                     [st EXCEPT !.Channels = chans,
                                !.users = @ \cup {c.UserName},
                                !.byKey = (c.Key :> c.UserName) @@ @], i + 1)
        ELSE failSet(<<"invalid channel: '%s'", c.Channel>>)

\* The loop that records  userNamesByKey[c.Key] = c.Passphrase .
RECURSIVE channelsLoop_passphraseByKey(_, _)
channelsLoop_passphraseByKey(st, i) ==
    IF i > Len(st.Channels)
    THEN [err |-> Nil, Channels |-> st.Channels, byKey |-> st.byKey]
    ELSE
    LET c == st.Channels[i]
        fail(e) == [err |-> e, Channels |-> st.Channels, byKey |-> st.byKey]
        pairs == channelPairsLoop(c.Pairs, st.Pairs, 1, <<>>)
        chans == [st.Channels EXCEPT ![i].Pairs = pairs]
        failSet(e) == [err |-> e, Channels |-> chans, byKey |-> st.byKey]
    IN  IF c.Channel = "" THEN fail(<<"not specified: channel">>)
        ELSE IF Len(st.Pairs) + Len(c.Pairs) = 0
        THEN fail(<<"no pairs specified for '%s' channel", c.Channel>>)
        ELSE IF c.Channel = "ticker"
        THEN IF st.ticker THEN failSet(<<"channel 'ticker' declared twice">>)
             ELSE IF publicChannelCase(c) # Nil
             THEN failSet(publicChannelCase(c))
             ELSE channelsLoop_passphraseByKey([st EXCEPT !.Channels = chans,
                                          !.ticker = TRUE], i + 1)
        ELSE IF c.Channel = "level2"
        THEN IF st.level2 THEN failSet(<<"channel 'level2' declared twice">>)
             ELSE IF publicChannelCase(c) # Nil
             THEN failSet(publicChannelCase(c))
             ELSE channelsLoop_passphraseByKey([st EXCEPT !.Channels = chans,
                                          !.level2 = TRUE], i + 1)
        ELSE IF c.Channel = "user"
        THEN IF userChannelCase(c, st.users, st.byKey) # Nil
             THEN failSet(userChannelCase(c, st.users, st.byKey))
             ELSE channelsLoop_passphraseByKey(
                     [st EXCEPT !.Channels = chans,
                                !.users = @ \cup {c.UserName},
                                !.byKey = (c.Key :> c.Passphrase) @@ @], i + 1)
        ELSE failSet(<<"invalid channel: '%s'", c.Channel>>)

\* for i, c := range gx.Channels, from position i on.  st holds gx.Pairs,
\* gx.Channels and the loop's locals users, userNamesByKey, ticker, level2.
\* The result is the error returned (Nil past the last channel) with
\* gx.Channels as the loop leaves it.
RECURSIVE channelsLoop(_, _)
channelsLoop(st, i) ==
    IF i > Len(st.Channels)
    THEN [err |-> Nil, Channels |-> st.Channels, byKey |-> st.byKey]
    ELSE
    LET c == st.Channels[i]
        fail(e) == [err |-> e, Channels |-> st.Channels, byKey |-> st.byKey]
        pairs == channelPairsLoop(c.Pairs, st.Pairs, 1, <<>>)
        chans == [st.Channels EXCEPT ![i].Pairs = pairs]
        failSet(e) == [err |-> e, Channels |-> chans, byKey |-> st.byKey]
    IN  IF c.Channel = "" THEN fail(<<"not specified: channel">>)
        ELSE IF Len(st.Pairs) + Len(c.Pairs) = 0
        THEN fail(<<"no pairs specified for '%s' channel", c.Channel>>)
        ELSE IF c.Channel = "ticker"
        THEN IF st.ticker THEN failSet(<<"channel 'ticker' declared twice">>)
             ELSE IF publicChannelCase(c) # Nil
             THEN failSet(publicChannelCase(c))
             ELSE channelsLoop([st EXCEPT !.Channels = chans,
                                          !.ticker = TRUE], i + 1)
        ELSE IF c.Channel = "level2"
        THEN IF st.level2 THEN failSet(<<"channel 'level2' declared twice">>)
             ELSE IF publicChannelCase(c) # Nil
             THEN failSet(publicChannelCase(c))
             ELSE channelsLoop([st EXCEPT !.Channels = chans,
                                          !.level2 = TRUE], i + 1)
        ELSE IF c.Channel = "user"
        THEN IF userChannelCase(c, st.users, st.byKey) # Nil
             THEN failSet(userChannelCase(c, st.users, st.byKey))
             ELSE channelsLoop(
                     [st EXCEPT !.Channels = chans,
                                !.users = @ \cup {c.UserName},
                                !.byKey = (c.Key :> c.UserName) @@ @], i + 1)
        ELSE failSet(<<"invalid channel: '%s'", c.Channel>>)

\* validateConfig without its check of gx.FeedURL.
validateConfig_noFeedURL(feedURL, gxPairs, gxChannels, gxByKey) ==
    LET same(e) == [err |-> e, Pairs |-> gxPairs, Channels |-> gxChannels,
                    userNamesByKey |-> gxByKey]
    IN  IF Len(gxChannels) = 0 THEN same(<<"no channels specified">>)
        ELSE
        LET pairs == globalPairsLoop(gxPairs, 1, <<>>)
            r == channelsLoop([Pairs |-> pairs, Channels |-> gxChannels,
                               users |-> {}, byKey |-> <<>>,
                               ticker |-> FALSE, level2 |-> FALSE], 1)
        IN  [err |-> r.err, Pairs |-> pairs, Channels |-> r.Channels,
             userNamesByKey |-> IF r.err = Nil THEN r.byKey ELSE gxByKey]

\* validateConfig storing its map in gx.userNamesByKey as it fills it.
validateConfig_storeEarly(feedURL, gxPairs, gxChannels, gxByKey) ==
    LET same(e) == [err |-> e, Pairs |-> gxPairs, Channels |-> gxChannels,
                    userNamesByKey |-> gxByKey]
    IN  IF feedURL = "" THEN same(<<"not specified: feed_url">>)
        ELSE IF Len(gxChannels) = 0 THEN same(<<"no channels specified">>)
        ELSE
        LET pairs == globalPairsLoop(gxPairs, 1, <<>>)
            r == channelsLoop([Pairs |-> pairs, Channels |-> gxChannels,
                               users |-> {}, byKey |-> <<>>,
                               ticker |-> FALSE, level2 |-> FALSE], 1)
        IN  [err |-> r.err, Pairs |-> pairs, Channels |-> r.Channels,
             userNamesByKey |-> r.byKey]

\* validateConfig filling gx.userNamesByKey as it is instead of a new map.
validateConfig_reuseByKey(feedURL, gxPairs, gxChannels, gxByKey) ==
    LET same(e) == [err |-> e, Pairs |-> gxPairs, Channels |-> gxChannels,
                    userNamesByKey |-> gxByKey]
    IN  IF feedURL = "" THEN same(<<"not specified: feed_url">>)
        ELSE IF Len(gxChannels) = 0 THEN same(<<"no channels specified">>)
        ELSE
        LET pairs == globalPairsLoop(gxPairs, 1, <<>>)
            r == channelsLoop([Pairs |-> pairs, Channels |-> gxChannels,
                               users |-> {}, byKey |-> gxByKey,
                               ticker |-> FALSE, level2 |-> FALSE], 1)
        IN  [err |-> r.err, Pairs |-> pairs, Channels |-> r.Channels,
             userNamesByKey |-> IF r.err = Nil THEN r.byKey ELSE gxByKey]

\* gx.validateConfig(): the error returned and the fields of gx it leaves.
validateConfig(feedURL, gxPairs, gxChannels, gxByKey) ==
    LET same(e) == [err |-> e, Pairs |-> gxPairs, Channels |-> gxChannels,
                    userNamesByKey |-> gxByKey]
    IN  IF feedURL = "" THEN same(<<"not specified: feed_url">>)
        ELSE IF Len(gxChannels) = 0 THEN same(<<"no channels specified">>)
        ELSE
        LET pairs == globalPairsLoop(gxPairs, 1, <<>>)
            r == channelsLoop([Pairs |-> pairs, Channels |-> gxChannels,
                               users |-> {}, byKey |-> <<>>,
                               ticker |-> FALSE, level2 |-> FALSE], 1)
        IN  [err |-> r.err, Pairs |-> pairs, Channels |-> r.Channels,
             userNamesByKey |-> IF r.err = Nil THEN r.byKey ELSE gxByKey]

---------------------------------------------------------------------------
(* getSignature and generateSubscribeRequests *)

HexDigits ==
    <<"0", "1", "2", "3", "4", "5", "6", "7", "8", "9",
      "a", "b", "c", "d", "e", "f">>

\* The bytes written in hexadecimal, two digits each.
RECURSIVE Hex(_)
Hex(bytes) ==
    IF Len(bytes) = 0 THEN <<>>
    ELSE <<HexDigits[(Head(bytes) \div 16) + 1],
           HexDigits[(Head(bytes) % 16) + 1]>> \o Hex(Tail(bytes))

\* The bytes without the zero bytes they end with.
RECURSIVE TrimZeros(_)
TrimZeros(bytes) ==
    IF Len(bytes) > 0 /\ bytes[Len(bytes)] = 0
    THEN TrimZeros(SubSeq(bytes, 1, Len(bytes) - 1))
    ELSE bytes

\* The block size of SHA-256 in bytes.
BlockSize == 64

\* What an HMAC-SHA256 is a function of: the key as the HMAC uses it (one
\* of up to a block is filled up with zero bytes, so the zero bytes it ends
\* with do not count; a longer one goes in as its hash) and the message.
\* The signature is kept as this term of the two.
hmacSHA256(key, message) ==
    <<"HMAC-SHA256(">>
    \o (IF Len(key) > BlockSize THEN <<"SHA256(">> \o Hex(key) \o <<")">>
        ELSE Hex(TrimZeros(key)))
    \o <<",">> \o message \o <<")">>

\* The signer: Client.Headers(method, path, timestamp, body)
\* ["CB-ACCESS-SIGN"] of the go-gdax client made with  secret.  The
\* signature is the base64 of an HMAC-SHA256 over timestamp, method, path
\* and body put together, keyed by the base64-decoded secret; there is no
\* header (the empty string) when the secret does not decode.  method, path
\* and body are one token each of the message.
accessSign(secret, method, path, timestamp, body) ==
    IF IsBase64(secret)
    THEN hmacSHA256(DecodeString(secret),
                    timestamp \o <<method, path, body>>)
    ELSE <<>>

\* getSignature reading the clock a second time for the text it signs.
getSignature_secondReading(secret, key, passphrase, now) ==
    [timestamp |-> FormatInt(now),
     signature |-> accessSign(secret, "GET", "/users/self/verify",
                              FormatInt(now + 1), "")]

\* getSignature with  now  the reading of time.Now().Unix().
getSignature(secret, key, passphrase, now) ==
    LET timestamp == FormatInt(now)
    IN  [timestamp |-> timestamp,
         signature |-> accessSign(secret, "GET", "/users/self/verify",
                                  timestamp, "")]

\* The calls of getSignature the walk over channels makes from position i
\* on with numSubs bundles allocated, one for each "user" channel, in
\* order: what each was given and what it returned.  The walk ends where
\* subs[subID] is out of range, before the call of that iteration.
RECURSIVE getSignatureCallsFrom(_, _, _, _, _, _)
getSignatureCallsFrom(channels, numSubs, readings, subID0, hasUser0, i) ==
    IF i > Len(channels) THEN <<>>
    ELSE
    LET channel == channels[i]
        isUser == channel.Channel = "user"
        subID == IF isUser /\ hasUser0 THEN subID0 + 1 ELSE subID0
        hasUser == IF isUser THEN ~hasUser0 ELSE hasUser0
        sig == getSignature(channel.Secret, channel.Key, channel.Passphrase,
                            readings[i])
    IN  IF subID + 1 > numSubs THEN <<>>
        ELSE (IF isUser
              THEN <<[secret |-> channel.Secret, key |-> channel.Key,
                      passphrase |-> channel.Passphrase,
                      timestamp |-> sig.timestamp,
                      signature |-> sig.signature]>>
              ELSE <<>>)
             \o getSignatureCallsFrom(channels, numSubs, readings, subID,
                                      hasUser, i + 1)

\* The calls of getSignature of one generateSubscribeRequests().
getSignatureCalls(channels, numSubs, readings) ==
    getSignatureCallsFrom(channels, numSubs, readings, 0, FALSE, 1)

\* The walk that appends the channel to the bundle it was on before it
\* moves to the next one.
RECURSIVE planLoop_appendFirst(_, _, _, _)
planLoop_appendFirst(channels, readings, st, i) ==
    IF i > Len(channels) \/ st.panic THEN st
    ELSE
    LET channel == channels[i]
        isUser == channel.Channel = "user"
        subID == IF isUser /\ st.hasUser THEN st.subID + 1 ELSE st.subID
        hasUser == IF isUser THEN ~st.hasUser ELSE st.hasUser
        sig == getSignature(channel.Secret, channel.Key, channel.Passphrase,
                            readings[i])
        withAuth(sub) == IF isUser
                         THEN [sub EXCEPT !.Key = channel.Key,
                                          !.Passphrase = channel.Passphrase,
                                          !.Timestamp = sig.timestamp,
                                          !.Signature = sig.signature]
                         ELSE sub
        appended == [st.subs EXCEPT ![st.subID + 1].Channels =
                        Append(@, channel)]
    IN  IF subID + 1 > Len(st.subs) THEN [st EXCEPT !.panic = TRUE]
        ELSE planLoop_appendFirst(channels, readings,
                [subs |-> [appended EXCEPT ![subID + 1] = withAuth(@)],
                 subID |-> subID, hasUser |-> hasUser, panic |-> FALSE],
                i + 1)

\* The walk that moves to the next bundle at every "user" channel, the first
\* one included.
RECURSIVE planLoop_alwaysAdvance(_, _, _, _)
planLoop_alwaysAdvance(channels, readings, st, i) ==
    IF i > Len(channels) \/ st.panic THEN st
    ELSE
    LET channel == channels[i]
        isUser == channel.Channel = "user"
        subID == IF isUser THEN st.subID + 1 ELSE st.subID
        sig == getSignature(channel.Secret, channel.Key, channel.Passphrase,
                            readings[i])
        withAuth(sub) == IF isUser
                         THEN [sub EXCEPT !.Key = channel.Key,
                                          !.Passphrase = channel.Passphrase,
                                          !.Timestamp = sig.timestamp,
                                          !.Signature = sig.signature]
                         ELSE sub
    IN  IF subID + 1 > Len(st.subs) THEN [st EXCEPT !.panic = TRUE]
        ELSE planLoop_alwaysAdvance(channels, readings,
                [subs |-> [st.subs EXCEPT ![subID + 1] =
                              [withAuth(@) EXCEPT !.Channels =
                                  Append(@, channel)]],
                 subID |-> subID, hasUser |-> FALSE, panic |-> FALSE],
                i + 1)

\* The walk that writes every user's credentials to subs[0].
RECURSIVE planLoop_authOnFirst(_, _, _, _)
planLoop_authOnFirst(channels, readings, st, i) ==
    IF i > Len(channels) \/ st.panic THEN st
    ELSE
    LET channel == channels[i]
        isUser == channel.Channel = "user"
        subID == IF isUser /\ st.hasUser THEN st.subID + 1 ELSE st.subID
        hasUser == IF isUser THEN ~st.hasUser ELSE st.hasUser
        sig == getSignature(channel.Secret, channel.Key, channel.Passphrase,
                            readings[i])
        withAuth(sub) == IF isUser
                         THEN [sub EXCEPT !.Key = channel.Key,
                                          !.Passphrase = channel.Passphrase,
                                          !.Timestamp = sig.timestamp,
                                          !.Signature = sig.signature]
                         ELSE sub
        signed == [st.subs EXCEPT ![1] = withAuth(@)]
    IN  IF subID + 1 > Len(st.subs) THEN [st EXCEPT !.panic = TRUE]
        ELSE planLoop_authOnFirst(channels, readings,
                [subs |-> [signed EXCEPT ![subID + 1].Channels =
                              Append(@, channel)],
                 subID |-> subID, hasUser |-> hasUser, panic |-> FALSE],
                i + 1)

\* for _, channel := range gx.Channels, from position i on; clock[i] is what
\* time.Now().Unix() reads during iteration i.  st.panic: subs[subID] is out
\* of range.
RECURSIVE planLoop(_, _, _, _)
planLoop(channels, readings, st, i) ==
    IF i > Len(channels) \/ st.panic THEN st
    ELSE
    LET channel == channels[i]
        isUser == channel.Channel = "user"
        subID == IF isUser /\ st.hasUser THEN st.subID + 1 ELSE st.subID
        hasUser == IF isUser THEN ~st.hasUser ELSE st.hasUser
        sig == getSignature(channel.Secret, channel.Key, channel.Passphrase,
                            readings[i])
        withAuth(sub) == IF isUser
                         THEN [sub EXCEPT !.Key = channel.Key,
                                          !.Passphrase = channel.Passphrase,
                                          !.Timestamp = sig.timestamp,
                                          !.Signature = sig.signature]
                         ELSE sub
    IN  \* Go's subs[subID] is subs[subID + 1] here.
        IF subID + 1 > Len(st.subs) THEN [st EXCEPT !.panic = TRUE]
        ELSE planLoop(channels, readings,
                [subs |-> [st.subs EXCEPT ![subID + 1] =
                              [withAuth(@) EXCEPT !.Channels =
                                  Append(@, channel)]],
                 subID |-> subID, hasUser |-> hasUser, panic |-> FALSE],
                i + 1)

\* The planner with  numSubs += numUsers  for  numSubs += numUsers - 1.
generateSubscribeRequests_oneExtra(gxChannels, gxByKey, gxPairs, readings) ==
    LET numUsers == Cardinality(DOMAIN gxByKey)
        numSubs == IF numUsers > 1 THEN 1 + numUsers ELSE 1
        walk == planLoop(gxChannels, readings,
                         [subs |-> [k \in 1..numSubs |-> ZeroMessage],
                          subID |-> 0, hasUser |-> FALSE, panic |-> FALSE], 1)
    IN  [subs |-> [k \in 1..numSubs |->
                      [walk.subs[k] EXCEPT !.Type = "subscribe",
                                           !.Pairs = gxPairs]],
         panic |-> walk.panic]

\* The planner whose last loop passes over the bundles that got no channel.
generateSubscribeRequests_skipEmpty(gxChannels, gxByKey, gxPairs, readings) ==
    LET numUsers == Cardinality(DOMAIN gxByKey)
        numSubs == IF numUsers > 1 THEN 1 + (numUsers - 1) ELSE 1
        walk == planLoop(gxChannels, readings,
                         [subs |-> [k \in 1..numSubs |-> ZeroMessage],
                          subID |-> 0, hasUser |-> FALSE, panic |-> FALSE], 1)
    IN  [subs |-> [k \in 1..numSubs |->
                      IF Len(walk.subs[k].Channels) = 0 THEN walk.subs[k]
                      ELSE [walk.subs[k] EXCEPT !.Type = "subscribe",
                                                !.Pairs = gxPairs]],
         panic |-> walk.panic]

\* gx.generateSubscribeRequests(): [subs, panic].
generateSubscribeRequests(gxChannels, gxByKey, gxPairs, readings) ==
    LET numUsers == Cardinality(DOMAIN gxByKey)
        numSubs == IF numUsers > 1 THEN 1 + (numUsers - 1) ELSE 1
        walk == planLoop(gxChannels, readings,
                         [subs |-> [k \in 1..numSubs |-> ZeroMessage],
                          subID |-> 0, hasUser |-> FALSE, panic |-> FALSE], 1)
    IN  [subs |-> [k \in 1..numSubs |->
                      [walk.subs[k] EXCEPT !.Type = "subscribe",
                                           !.Pairs = gxPairs]],
         panic |-> walk.panic]

---------------------------------------------------------------------------
(* The handshake validator *)

ErrType == <<"invalid GDAX response: 'type' != 'subscriptions'">>
ErrChannelsLength == <<"invalid GDAX response: 'channels' length differs">>
ErrChannelMismatch == <<"invalid GDAX response: channel mismatch">>
ErrPairLength == <<"invalid GDAX response: pair length mismatch">>
ErrPairMismatch == <<"invalid GDAX response: pair mismatch">>

\* for _, resPair := range resChannelPairs, from position k on.
RECURSIVE resPairLoop(_, _, _, _)
resPairLoop(reqChannelPairs, reqGlobalPairs, resChannelPairs, k) ==
    IF k > Len(resChannelPairs) THEN Nil
    ELSE IF InSeq(resChannelPairs[k], reqChannelPairs)
         THEN resPairLoop(reqChannelPairs, reqGlobalPairs, resChannelPairs, k + 1)
    ELSE IF InSeq(resChannelPairs[k], reqGlobalPairs)
         THEN resPairLoop(reqChannelPairs, reqGlobalPairs, resChannelPairs, k + 1)
    ELSE ErrPairMismatch

\* The loop with  break  in place of the first  continue : the first pair
\* found among the channel's own pairs ends the whole check.
RECURSIVE resPairLoopBreak(_, _, _, _)
resPairLoopBreak(reqChannelPairs, reqGlobalPairs, resChannelPairs, k) ==
    IF k > Len(resChannelPairs) THEN Nil
    ELSE IF InSeq(resChannelPairs[k], reqChannelPairs) THEN Nil
    ELSE IF InSeq(resChannelPairs[k], reqGlobalPairs)
         THEN resPairLoopBreak(reqChannelPairs, reqGlobalPairs, resChannelPairs, k + 1)
    ELSE ErrPairMismatch

validateChannelPairs_break(reqChannelPairs, reqGlobalPairs, resChannelPairs) ==
    IF Len(reqChannelPairs) + Len(reqGlobalPairs) # Len(resChannelPairs)
    THEN ErrPairLength
    ELSE resPairLoopBreak(reqChannelPairs, reqGlobalPairs, resChannelPairs, 1)

\* The check that compares the acknowledged pairs position by position
\* with the channel's pairs followed by the global ones.
validateChannelPairs_positional(reqChannelPairs, reqGlobalPairs, resChannelPairs) ==
    IF Len(reqChannelPairs) + Len(reqGlobalPairs) # Len(resChannelPairs)
    THEN ErrPairLength
    ELSE IF resChannelPairs = reqChannelPairs \o reqGlobalPairs THEN Nil
    ELSE ErrPairMismatch

validateChannelPairs(reqChannelPairs, reqGlobalPairs, resChannelPairs) ==
    IF Len(reqChannelPairs) + Len(reqGlobalPairs) # Len(resChannelPairs)
    THEN ErrPairLength
    ELSE resPairLoop(reqChannelPairs, reqGlobalPairs, resChannelPairs, 1)

\* for _, reqChannel := range req.Channels, from position j on, for one
\* resChannel; match is the loop's flag.
RECURSIVE reqChannelLoop(_, _, _, _)
reqChannelLoop(req, resChannel, j, match) ==
    IF j > Len(req.Channels)
    THEN IF match THEN Nil ELSE ErrChannelMismatch
    ELSE IF resChannel.Channel = req.Channels[j].Channel
         THEN LET e == validateChannelPairs(req.Channels[j].Pairs, req.Pairs,
                                            resChannel.Pairs)
              IN  IF e # Nil THEN e
                  ELSE reqChannelLoop(req, resChannel, j + 1, TRUE)
         ELSE reqChannelLoop(req, resChannel, j + 1, match)

\* for _, resChannel := range res.Channels, from position i on.
RECURSIVE resChannelLoop(_, _, _)
resChannelLoop(req, rsp, i) ==
    IF i > Len(rsp.Channels) THEN Nil
    ELSE LET e == reqChannelLoop(req, rsp.Channels[i], 1, FALSE)
         IN  IF e # Nil THEN e ELSE resChannelLoop(req, rsp, i + 1)

\* The validator without the comparison of the two channel counts.
validateSubscribeResponse_noLength(req, rsp) ==
    IF rsp.Type # "subscriptions" THEN ErrType
    ELSE resChannelLoop(req, rsp, 1)

validateSubscribeResponse(req, rsp) ==
    IF rsp.Type # "subscriptions" THEN ErrType
    ELSE IF Len(rsp.Channels) # Len(req.Channels) THEN ErrChannelsLength
    ELSE resChannelLoop(req, rsp, 1)

---------------------------------------------------------------------------
(* Bounds and inputs *)

\* Calls of Start and Stop the caller makes.
MaxCalls == 3
\* Data messages one listen goroutine is handed.
MaxMsgs == 1
\* Channels of a configuration given to validateConfig.
MaxChannels == 3
\* Pairs of one acknowledged channel given to the handshake validator.
MaxHsPairs == 2

Pending == <<"pending">>

\* Sequences over S of length 0..n.
SeqsUpTo(S, n) == UNION {[1..k -> S] : k \in 0..n}

\* Readings of time.Now().Unix() during n consecutive loop iterations.
Clock == {1514764800, 1514764801}
ClockReadings(n) ==
    {readings \in [1..n -> Clock] :
        \A k \in 1..n : \A m \in k..n : readings[k] <= readings[m]}

Key1 == <<"a", "5", "3", "1">>
Key2 == <<"b", "3", "2", "3">>
Key3 == <<"Y", "3", "M", "=">>
Secret1 == <<"a", "4", "4", "4">>
Secret2 == <<"a", "5", "3", "2", "6", "3", "=", "=">>
NotBase64 == <<"n", "o", "t", " ", "!", "@", "#", "$">>
\* A key read from a file with its line feed: DecodeString skips it.
KeyNewline == <<"Y", "Q", "=", "=", "\n">>

UserChannel(pairs, name, key, secret, passphrase) ==
    [Channel |-> "user", Pairs |-> pairs, UserName |-> name, Key |-> key,
     Secret |-> secret, Passphrase |-> passphrase]

tickerChannelConfig == ChannelEntry("ticker", <<eth_usd>>)
level2ChannelConfig == ChannelEntry("level2", <<btc_usd, BTC_USD, ETH_USD>>)
userJohn == UserChannel(<<BTC_USD, ETH_USD>>, "John Smith", Key1, Secret1,
                        "passphrase")
userJane == UserChannel(<<BTC_USD>>, "Jane Smith", Key2, Secret2,
                        "passphrase")
userJim == UserChannel(<<>>, "Jim Smith", Key3, Secret1, "open sesame")

\* The channels configurations are drawn from: the valid ones, a user that
\* repeats John's name and Jane's key, and one defect each of the others.
ChannelPool ==
    {tickerChannelConfig, level2ChannelConfig, userJohn, userJane, userJim,
     UserChannel(<<BTC_USD>>, "John Smith", Key2, Secret1, "passphrase"),
     UserChannel(<<BTC_USD>>, "Joe Smith", NotBase64, Secret1, "passphrase"),
     [tickerChannelConfig EXCEPT !.UserName = "John Smith"],
     [level2ChannelConfig EXCEPT !.Passphrase = "passphrase"],
     ChannelEntry("invalid", <<ETH_USD>>),
     ChannelEntry("", <<ETH_USD>>)}

\* The "user" channels configurations are drawn from: the valid ones, one
\* that repeats John's name, one that repeats John's key, one for each
\* missing or undecodable field, and one whose key ends with a line feed.
Joe(key, secret, passphrase) ==
    UserChannel(<<BTC_USD>>, "Joe Smith", key, secret, passphrase)

UserPool ==
    {userJohn, userJane, userJim,
     UserChannel(<<BTC_USD>>, "John Smith", Key2, Secret1, "passphrase"),
     Joe(Key1, Secret2, "passphrase"),
     UserChannel(<<BTC_USD>>, "", Key3, Secret1, "passphrase"),
     Joe(<<>>, Secret1, "passphrase"),
     Joe(NotBase64, Secret1, "passphrase"),
     Joe(Key3, <<>>, "passphrase"),
     Joe(Key3, NotBase64, "passphrase"),
     Joe(Key3, Secret1, ""),
     Joe(KeyNewline, Secret1, "passphrase")}

GlobalPairsPool ==
    {<<>>, <<eth_usd, ETH_BTC, ETH_USD>>, <<eth_usd_acute, ETH_USD_ACUTE>>}

FeedURLPool == {"", "wss://ws-feed.gdax.com"}

\* The configurations the supervisor is started with: one public channel
\* (one connection), two users after the public channels (two connections),
\* and no feed_url (invalid).
SupervisorConfigs ==
    {[FeedURL |-> "wss://ws-feed.gdax.com", Pairs |-> <<>>,
      Channels |-> <<tickerChannelConfig>>],
     [FeedURL |-> "wss://ws-feed.gdax.com", Pairs |-> <<ETH_USD>>,
      Channels |-> <<tickerChannelConfig, userJohn, userJane>>],
     [FeedURL |-> "", Pairs |-> <<>>,
      Channels |-> <<tickerChannelConfig>>]}

\* The acknowledgement of req the server sends when it accepts all of it:
\* every channel with its own pairs and the global ones.
GoodAck(req) ==
    Message("subscriptions", <<>>,
            [k \in 1..Len(req.Channels) |->
                ChannelEntry(req.Channels[k].Channel,
                             req.Channels[k].Pairs \o req.Pairs)])

\* What ReadJSON may decode into res: the good acknowledgement, one without
\* its last channel, and nothing (res left at its zero value).
AckPool(req) ==
    {GoodAck(req), ZeroMessage,
     [GoodAck(req) EXCEPT !.Channels =
         SubSeq(@, 1, IF Len(@) = 0 THEN 0 ELSE Len(@) - 1)]}

---------------------------------------------------------------------------
(* Initial states *)

NoCall == [ret |-> Pending, at |-> ""]

NoPairsCall == [i |-> 0, j |-> 0, err |-> Pending]

InitGx(feedURL, gxPairs, gxChannels) ==
    /\ FeedURL = feedURL
    /\ Pairs = gxPairs
    /\ Channels = gxChannels
    /\ userNamesByKey = <<>>
    /\ acc = "nil"
    /\ wg = 0
    /\ conns = <<>>

InitMain(at, readings) ==
    /\ pc = at
    /\ clock = readings
    /\ logged = 0
    /\ last = NoCall
    /\ subs = <<>>
    /\ subIdx = 0
    /\ wsConn = 0
    /\ res = ZeroMessage
    /\ retErr = Nil
    /\ stopIdx = 0
    /\ cs = <<>>
    /\ calls = <<>>
    /\ startDialed = <<>>
    /\ verr = Pending
    /\ signCalls = <<>>

InitHs(req, rsp) ==
    /\ hsReq = req
    /\ hsRes = rsp
    /\ hsErr = Pending
    /\ pairsCall = NoPairsCall

\* The plugin as the factory returns it, configured.
Init ==
    /\ \E cfg \in SupervisorConfigs : InitGx(cfg.FeedURL, cfg.Pairs, cfg.Channels)
    /\ InitMain("idle", [k \in 1..MaxChannels |-> CHOOSE t \in Clock : TRUE])
    /\ closeErrs = {}
    /\ InitHs(ZeroMessage, ZeroMessage)

---------------------------------------------------------------------------
(* Start, Stop and listen *)

\* The errors the transport returns from dial, WriteJSON and ReadJSON.
ErrDial == <<"dial failed">>
ErrWriteJSON == <<"WriteJSON failed">>
ErrReadJSON == <<"ReadJSON failed">>

\* What the transport knows of one connection.
NewConn ==
    [closes |-> 0,        \* calls of Close
     stage |-> "dialed",  \* dialed, sent, acked, validated, rejected
     launches |-> 0,      \* go gx.listen(wsConn) statements executed
     task |-> "none",     \* the listen goroutine: none, running, done
     sent |-> <<>>]       \* requests written

\* Start's locals as they are outside a call.
NoLocals ==
    /\ subs' = <<>>
    /\ subIdx' = 0
    /\ wsConn' = 0
    /\ res' = ZeroMessage

\* return err, at the failing step  at.
ReturnErr(e, at) ==
    /\ last' = [ret |-> e, at |-> at]
    /\ pc' = "idle"

\* Start returning e at once, its call of gx.Stop() left out.
StopThenReturn_noStop(e, at) ==
    /\ last' = [ret |-> e, at |-> at]
    /\ retErr' = Nil
    /\ stopIdx' = 0
    /\ pc' = "idle"

\* gx.Stop() called by Start, which then returns e.
StopThenReturn(e, at) ==
    /\ last' = [ret |-> Pending, at |-> at]
    /\ retErr' = e
    /\ stopIdx' = 1
    /\ pc' = IF Len(conns) = 0 THEN "stop_wait" ELSE "stop_close"

\* Start going on to plan and dial whatever validateConfig returned.
StartCall_ignoreErr ==
    /\ pc = "idle"
    /\ Len(calls) < MaxCalls
    /\ calls' = Append(calls, "Start")
    /\ LET v == validateConfig(FeedURL, Pairs, Channels, userNamesByKey)
           g == generateSubscribeRequests(
                    v.Channels, v.userNamesByKey, v.Pairs, clock)
       IN  /\ Pairs' = v.Pairs
           /\ Channels' = v.Channels
           /\ userNamesByKey' = v.userNamesByKey
           /\ verr' = v.err
           /\ startDialed' = <<>>
           /\ last' = NoCall
           /\ acc' = "acc"
           /\ subs' = g.subs
           /\ subIdx' = 1
           /\ pc' = IF g.panic THEN "panic" ELSE "dial"
           /\ signCalls' =
                 signCalls \o getSignatureCalls(v.Channels, Len(g.subs), clock)
    /\ UNCHANGED <<FeedURL, wg, conns, wsConn, res, retErr, stopIdx, envVars,
                   hsVars>>

\* Start up to the first dial: validateConfig, gx.acc = acc,
\* generateSubscribeRequests.
StartCall ==
    /\ pc = "idle"
    /\ Len(calls) < MaxCalls
    /\ calls' = Append(calls, "Start")
    /\ LET v == validateConfig(FeedURL, Pairs, Channels, userNamesByKey)
           g == generateSubscribeRequests(
                    v.Channels, v.userNamesByKey, v.Pairs, clock)
       IN  /\ Pairs' = v.Pairs
           /\ Channels' = v.Channels
           /\ userNamesByKey' = v.userNamesByKey
           /\ verr' = v.err
           /\ startDialed' = <<>>
           /\ IF v.err # Nil
              THEN /\ ReturnErr(v.err, "config")
                   /\ UNCHANGED <<acc, subs, subIdx, signCalls>>
              ELSE /\ last' = NoCall
                   /\ acc' = "acc"
                   /\ subs' = g.subs
                   /\ subIdx' = 1
                   /\ pc' = IF g.panic THEN "panic" ELSE "dial"
                   /\ signCalls' =
                         signCalls
                         \o getSignatureCalls(v.Channels, Len(g.subs), clock)
    /\ UNCHANGED <<FeedURL, wg, conns, wsConn, res, retErr, stopIdx, envVars,
                   hsVars>>

\* wsConn, err := dial(gx.FeedURL); gx.conns = append(gx.conns, wsConn)
Dial ==
    /\ pc = "dial"
    /\ \/ /\ ReturnErr(ErrDial, "dial")
          /\ NoLocals
          /\ UNCHANGED <<conns, cs, startDialed>>
       \/ /\ cs' = Append(cs, NewConn)
          /\ wsConn' = Len(cs) + 1
          /\ conns' = Append(conns, Len(cs) + 1)
          /\ startDialed' = Append(startDialed, Len(cs) + 1)
          /\ pc' = "write"
          /\ UNCHANGED <<subs, subIdx, res, last>>
    /\ UNCHANGED <<FeedURL, Pairs, Channels, userNamesByKey, acc, wg, retErr,
                   stopIdx, clock, closeErrs, logged, calls, verr, hsVars,
                   signCalls>>

\* WriteJSON followed at once by  gx.wg.Add(1); go gx.listen(wsConn) , before
\* Start has received the acknowledgement.
Write_launch ==
    /\ pc = "write"
    /\ \/ /\ StopThenReturn(ErrWriteJSON, "write")
          /\ UNCHANGED <<cs, wg>>
       \/ /\ cs' = [cs EXCEPT ![wsConn].sent = Append(@, subs[subIdx]),
                              ![wsConn].stage = "sent",
                              ![wsConn].launches = @ + 1,
                              ![wsConn].task = "running"]
          /\ wg' = wg + 1
          /\ pc' = "read"
          /\ UNCHANGED <<last, retErr, stopIdx>>
    /\ UNCHANGED <<FeedURL, Pairs, Channels, userNamesByKey, acc, conns, subs,
                   subIdx, wsConn, res, clock, closeErrs, logged, calls,
                   startDialed, verr, hsVars, signCalls>>

\* wsConn.WriteJSON(req)
Write ==
    /\ pc = "write"
    /\ \/ /\ StopThenReturn(ErrWriteJSON, "write")
          /\ UNCHANGED cs
       \/ /\ cs' = [cs EXCEPT ![wsConn].sent = Append(@, subs[subIdx]),
                              ![wsConn].stage = "sent"]
          /\ pc' = "read"
          /\ UNCHANGED <<last, retErr, stopIdx>>
    /\ UNCHANGED <<gxVars, subs, subIdx, wsConn, res, clock, closeErrs, logged,
                   calls, startDialed, verr, hsVars, signCalls>>

\* var res subscribeResponse; wsConn.ReadJSON(&res)
Read ==
    /\ pc = "read"
    /\ \/ /\ StopThenReturn(ErrReadJSON, "read")
          /\ UNCHANGED <<cs, res>>
       \/ /\ \E ack \in AckPool(subs[subIdx]) : res' = ack
          /\ cs' = [cs EXCEPT ![wsConn].stage = "acked"]
          /\ pc' = "validate"
          /\ UNCHANGED <<last, retErr, stopIdx>>
    /\ UNCHANGED <<gxVars, subs, subIdx, wsConn, clock, closeErrs, logged,
                   calls, startDialed, verr, hsVars, signCalls>>

\* The end of one iteration of Start's loop: the next req, or return nil.
NextReq ==
    IF subIdx < Len(subs)
    THEN /\ subIdx' = subIdx + 1
         /\ res' = ZeroMessage
         /\ pc' = "dial"
         /\ UNCHANGED <<subs, wsConn, last>>
    ELSE /\ ReturnErr(Nil, "")
         /\ NoLocals

\* gx.wg.Add(1); go gx.listen(wsConn) before the response is validated, and
\* whatever the validation says.
Validate_launchFirst ==
    /\ pc = "validate"
    /\ wg' = wg + 1
    /\ LET e == validateSubscribeResponse(subs[subIdx], res)
           launched == [cs EXCEPT ![wsConn].launches = @ + 1,
                                  ![wsConn].task = "running"]
       IN  IF e # Nil
           THEN /\ StopThenReturn(e, "handshake")
                /\ cs' = [launched EXCEPT ![wsConn].stage = "rejected"]
                /\ UNCHANGED <<subs, subIdx, wsConn, res>>
           ELSE /\ cs' = [launched EXCEPT ![wsConn].stage = "validated"]
                /\ NextReq
                /\ UNCHANGED <<retErr, stopIdx>>
    /\ UNCHANGED <<FeedURL, Pairs, Channels, userNamesByKey, acc, conns, clock,
                   closeErrs, logged, calls, startDialed, verr, hsVars,
                   signCalls>>

\* A loop that goes on to the next request when the response is invalid.
Validate_continue ==
    /\ pc = "validate"
    /\ LET e == validateSubscribeResponse(subs[subIdx], res)
       IN  IF e # Nil
           THEN /\ cs' = [cs EXCEPT ![wsConn].stage = "rejected"]
                /\ NextReq
                /\ UNCHANGED <<wg, retErr, stopIdx>>
           ELSE /\ wg' = wg + 1
                /\ cs' = [cs EXCEPT ![wsConn].stage = "validated",
                                    ![wsConn].launches = @ + 1,
                                    ![wsConn].task = "running"]
                /\ NextReq
                /\ UNCHANGED <<retErr, stopIdx>>
    /\ UNCHANGED <<FeedURL, Pairs, Channels, userNamesByKey, acc, conns, clock,
                   closeErrs, logged, calls, startDialed, verr, hsVars,
                   signCalls>>

\* validateSubscribeResponse(req, res); gx.wg.Add(1); go gx.listen(wsConn)
Validate ==
    /\ pc = "validate"
    /\ LET e == validateSubscribeResponse(subs[subIdx], res)
       IN  IF e # Nil
           THEN /\ StopThenReturn(e, "handshake")
                /\ cs' = [cs EXCEPT ![wsConn].stage = "rejected"]
                /\ UNCHANGED <<wg, subs, subIdx, wsConn, res>>
           ELSE /\ wg' = wg + 1
                /\ cs' = [cs EXCEPT ![wsConn].stage = "validated",
                                    ![wsConn].launches = @ + 1,
                                    ![wsConn].task = "running"]
                /\ NextReq
                /\ UNCHANGED <<retErr, stopIdx>>
    /\ UNCHANGED <<FeedURL, Pairs, Channels, userNamesByKey, acc, conns, clock,
                   closeErrs, logged, calls, startDialed, verr, hsVars,
                   signCalls>>

\* The caller calls gx.Stop().
StopCall ==
    /\ pc = "idle"
    /\ Len(calls) < MaxCalls
    /\ calls' = Append(calls, "Stop")
    /\ last' = NoCall
    /\ stopIdx' = 1
    /\ pc' = IF Len(conns) = 0 THEN "stop_wait" ELSE "stop_close"
    /\ UNCHANGED <<gxVars, subs, subIdx, wsConn, res, retErr, envVars,
                   startDialed, verr, hsVars, signCalls>>

\* One iteration of the loop that leaves the connection open.
StopClose_skip ==
    /\ pc = "stop_close"
    /\ stopIdx' = stopIdx + 1
    /\ pc' = IF stopIdx + 1 > Len(conns) THEN "stop_wait" ELSE "stop_close"
    /\ UNCHANGED <<gxVars, subs, subIdx, wsConn, res, retErr, envVars, histVars,
                   hsVars>>

\* The loop leaving at the first Close() that returns an error.
StopClose_breakOnError ==
    /\ pc = "stop_close"
    /\ cs' = [cs EXCEPT ![conns[stopIdx]].closes = @ + 1]
    /\ stopIdx' = stopIdx + 1
    /\ pc' = IF conns[stopIdx] \in closeErrs \/ stopIdx + 1 > Len(conns)
             THEN "stop_wait" ELSE "stop_close"
    /\ UNCHANGED <<gxVars, subs, subIdx, wsConn, res, retErr, clock, closeErrs,
                   logged, histVars, hsVars>>

\* One iteration of  for _, c := range gx.conns { c.Close() }  The value
\* Close() returns, an error for the connections of closeErrs, is dropped.
StopClose ==
    /\ pc = "stop_close"
    /\ cs' = [cs EXCEPT ![conns[stopIdx]].closes = @ + 1]
    /\ stopIdx' = stopIdx + 1
    /\ pc' = IF stopIdx + 1 > Len(conns) THEN "stop_wait" ELSE "stop_close"
    /\ UNCHANGED <<gxVars, subs, subIdx, wsConn, res, retErr, clock, closeErrs,
                   logged, histVars, hsVars>>

\* Stop going on without waiting for the listen goroutines.
StopWait_noWait ==
    /\ pc = "stop_wait"
    /\ pc' = "stop_clear"
    /\ UNCHANGED <<gxVars, subs, subIdx, wsConn, res, retErr, stopIdx, envVars,
                   histVars, hsVars>>

\* gx.wg.Wait() returns.
StopWait ==
    /\ pc = "stop_wait"
    /\ wg = 0
    /\ pc' = "stop_clear"
    /\ UNCHANGED <<gxVars, subs, subIdx, wsConn, res, retErr, stopIdx, envVars,
                   histVars, hsVars>>

\* Stop returning with gx.conns as it is.
StopClear_keepConns ==
    /\ pc = "stop_clear"
    /\ ReturnErr(retErr, last.at)
    /\ NoLocals
    /\ retErr' = Nil
    /\ stopIdx' = 0
    /\ UNCHANGED <<gxVars, envVars, calls, startDialed, verr, hsVars, signCalls>>

\* gx.conns = nil; Stop returns, and with it the Start that called it.
StopClear ==
    /\ pc = "stop_clear"
    /\ conns' = <<>>
    /\ ReturnErr(retErr, last.at)
    /\ NoLocals
    /\ retErr' = Nil
    /\ stopIdx' = 0
    /\ UNCHANGED <<FeedURL, Pairs, Channels, userNamesByKey, acc, wg, envVars,
                   calls, startDialed, verr, hsVars, signCalls>>

\* listen: c.ReadJSON(&msg) returns a message, which lPrintln logs.  Nothing
\* in listen looks at whether Stop has called Close on c: a message ReadJSON
\* had returned, or still returns, is logged all the same.
ListenMsg(c) ==
    /\ cs[c].task = "running"
    /\ logged < MaxMsgs
    /\ logged' = logged + 1
    /\ UNCHANGED <<gxVars, mainVars, cs, clock, closeErrs, histVars, hsVars>>

\* A listen goroutine that closes its connection when ReadJSON fails.
ListenErr_close(c) ==
    /\ cs[c].task = "running"
    /\ cs' = [cs EXCEPT ![c].task = "done", ![c].closes = @ + 1]
    /\ wg' = wg - 1
    /\ UNCHANGED <<FeedURL, Pairs, Channels, userNamesByKey, acc, conns,
                   mainVars, clock, closeErrs, logged, histVars, hsVars>>

\* listen: c.ReadJSON(&msg) returns an error (the connection was closed, or
\* the transport failed); the error is logged, the loop ends and the
\* deferred gx.wg.Done() runs.
ListenErr(c) ==
    /\ cs[c].task = "running"
    /\ cs' = [cs EXCEPT ![c].task = "done"]
    /\ wg' = wg - 1
    /\ UNCHANGED <<FeedURL, Pairs, Channels, userNamesByKey, acc, conns,
                   mainVars, clock, closeErrs, logged, histVars, hsVars>>

\* The receive pending on a closed connection returns its error.
ListenAfterClose == \E c \in 1..Len(cs) : cs[c].closes > 0 /\ ListenErr(c)

StopStep == StopClose \/ StopWait \/ StopClear

Next ==
    \/ StartCall
    \/ Dial
    \/ Write
    \/ Read
    \/ Validate
    \/ StopCall
    \/ StopClose
    \/ StopWait
    \/ StopClear
    \/ \E c \in 1..Len(cs) : ListenMsg(c)
    \/ \E c \in 1..Len(cs) : ListenErr(c)

Spec == Init /\ [][Next]_vars

\* The plugin configured for one connection a Start (or with no feed_url):
\* every further Start adds its connection to the recorded ones.
InitLive ==
    /\ \E cfg \in {c \in SupervisorConfigs : Len(c.Channels) = 1} :
          InitGx(cfg.FeedURL, cfg.Pairs, cfg.Channels)
    /\ InitMain("idle", [k \in 1..MaxChannels |-> CHOOSE t \in Clock : TRUE])
    /\ closeErrs = {}
    /\ InitHs(ZeroMessage, ZeroMessage)

\* The scheduler runs every goroutine that can take a step: Stop goes on
\* when it can, and a listen goroutine whose connection was closed gets its
\* error.
SpecLive ==
    InitLive /\ [][Next]_vars /\ WF_vars(StopStep) /\ WF_vars(ListenAfterClose)

\* The supervisor over a transport whose Close() returns an error on some of
\* the first connections dialed: the public-channel configuration (one
\* connection for each Start).
InitStop ==
    /\ InitGx("wss://ws-feed.gdax.com", <<>>, <<tickerChannelConfig>>)
    /\ InitMain("idle", [k \in 1..MaxChannels |-> CHOOSE t \in Clock : TRUE])
    /\ closeErrs \in SUBSET {1, 2}
    /\ InitHs(ZeroMessage, ZeroMessage)

SpecStop == InitStop /\ [][Next]_vars

---------------------------------------------------------------------------
(* validateConfig and generateSubscribeRequests called on their own, as     *)
(* TestValidateConfig and TestGenerateSubscribeRequests call them           *)

InitConfig ==
    /\ \E feedURL \in FeedURLPool, gxPairs \in GlobalPairsPool,
          gxChannels \in SeqsUpTo(ChannelPool, MaxChannels) :
            InitGx(feedURL, gxPairs, gxChannels)
    /\ \E readings \in ClockReadings(MaxChannels) : InitMain("config", readings)
    /\ closeErrs = {}
    /\ InitHs(ZeroMessage, ZeroMessage)

\* gx.validateConfig()
CallValidateConfig ==
    /\ pc = "config"
    /\ LET v == validateConfig(FeedURL, Pairs, Channels, userNamesByKey)
       IN  /\ Pairs' = v.Pairs
           /\ Channels' = v.Channels
           /\ userNamesByKey' = v.userNamesByKey
           /\ verr' = v.err
           /\ pc' = IF v.err = Nil THEN "validated" ELSE "rejected"
    /\ UNCHANGED <<FeedURL, acc, wg, conns, subs, subIdx, wsConn, res, retErr,
                   stopIdx, envVars, calls, last, startDialed, hsVars,
                   signCalls>>

\* gx.generateSubscribeRequests() on a validated configuration
CallGenerateSubscribeRequests ==
    /\ pc = "validated"
    /\ LET g == generateSubscribeRequests(Channels, userNamesByKey, Pairs, clock)
       IN  /\ subs' = g.subs
           /\ pc' = IF g.panic THEN "panic" ELSE "planned"
           /\ signCalls' =
                 signCalls \o getSignatureCalls(Channels, Len(g.subs), clock)
    /\ UNCHANGED <<gxVars, subIdx, wsConn, res, retErr, stopIdx, envVars,
                   calls, last, startDialed, verr, hsVars>>

NextConfig == CallValidateConfig \/ CallGenerateSubscribeRequests

SpecConfig == InitConfig /\ [][NextConfig]_vars

\* The same calls on configurations of "user" channels only, as the last
\* cases of TestValidateConfig.
InitUsers ==
    /\ \E feedURL \in FeedURLPool, gxPairs \in GlobalPairsPool,
          gxChannels \in SeqsUpTo(UserPool, MaxChannels) :
            InitGx(feedURL, gxPairs, gxChannels)
    /\ InitMain("config", [k \in 1..MaxChannels |-> CHOOSE t \in Clock : TRUE])
    /\ closeErrs = {}
    /\ InitHs(ZeroMessage, ZeroMessage)

SpecUsers == InitUsers /\ [][NextConfig]_vars

\* gx.validateConfig() called again on the configuration it accepted, as
\* TestStart does before it calls Start.
CallValidateConfigAgain ==
    /\ pc = "validated"
    /\ LET v == validateConfig(FeedURL, Pairs, Channels, userNamesByKey)
       IN  /\ Pairs' = v.Pairs
           /\ Channels' = v.Channels
           /\ userNamesByKey' = v.userNamesByKey
           /\ verr' = v.err
           /\ pc' = IF v.err = Nil THEN "revalidated" ELSE "rejected"
    /\ UNCHANGED <<FeedURL, acc, wg, conns, subs, subIdx, wsConn, res, retErr,
                   stopIdx, envVars, calls, last, startDialed, hsVars,
                   signCalls>>

NextRevalidate == CallValidateConfig \/ CallValidateConfigAgain

SpecRevalidate == InitConfig /\ [][NextRevalidate]_vars

\* The channels TestValidateConfig assigns to gx.Channels between two calls
\* of validateConfig on the same gx: valid ones, a user that repeats John's
\* name, and a "ticker" with a user_name.
ReassignedPool ==
    {tickerChannelConfig, userJohn, userJane,
     UserChannel(<<BTC_USD>>, "John Smith", Key2, Secret1, "passphrase"),
     [tickerChannelConfig EXCEPT !.UserName = "John Smith"]}

InitReconfigure ==
    /\ \E feedURL \in FeedURLPool, gxPairs \in GlobalPairsPool,
          gxChannels \in SeqsUpTo(ReassignedPool, MaxChannels) :
            InitGx(feedURL, gxPairs, gxChannels)
    /\ InitMain("config", [k \in 1..MaxChannels |-> CHOOSE t \in Clock : TRUE])
    /\ closeErrs = {}
    /\ InitHs(ZeroMessage, ZeroMessage)

\* gx.Channels = append([]channelConfig(nil), channels...) after a call of
\* validateConfig has returned; the other fields of gx stay as that call
\* left them.
SetChannels ==
    /\ pc \in {"validated", "rejected"}
    /\ \E gxChannels \in SeqsUpTo(ReassignedPool, MaxChannels) :
          Channels' = gxChannels
    /\ pc' = "config"
    /\ UNCHANGED <<FeedURL, Pairs, userNamesByKey, acc, wg, conns, subs, subIdx,
                   wsConn, res, retErr, stopIdx, envVars, histVars, hsVars>>

NextReconfigure == CallValidateConfig \/ SetChannels

SpecReconfigure == InitReconfigure /\ [][NextReconfigure]_vars

\* The planner called a second time on the configuration it planned, as
\* every Start calls it anew, at readings of the clock of its own.
SecretNewline == Secret1 \o <<"\n">>

userJoan == UserChannel(<<ETH_BTC>>, "Joan Smith", Key3, SecretNewline,
                        "passphrase")

SignPool == {tickerChannelConfig, userJohn, userJane, userJoan}

InitSign ==
    /\ \E gxChannels \in SeqsUpTo(SignPool, MaxChannels) :
            InitGx("wss://ws-feed.gdax.com", <<ETH_USD>>, gxChannels)
    /\ \E readings \in ClockReadings(MaxChannels) : InitMain("config", readings)
    /\ closeErrs = {}
    /\ InitHs(ZeroMessage, ZeroMessage)

CallGenerateSubscribeRequestsAgain ==
    /\ pc = "planned"
    /\ \E readings \in ClockReadings(MaxChannels) :
          LET g == generateSubscribeRequests(Channels, userNamesByKey, Pairs,
                                             readings)
          IN  /\ clock' = readings
              /\ subs' = g.subs
              /\ pc' = IF g.panic THEN "panic" ELSE "replanned"
              /\ signCalls' =
                    signCalls
                    \o getSignatureCalls(Channels, Len(g.subs), readings)
    /\ UNCHANGED <<gxVars, subIdx, wsConn, res, retErr, stopIdx, cs, closeErrs,
                   logged, calls, last, startDialed, verr, hsVars>>

NextSign ==
    \/ CallValidateConfig
    \/ CallGenerateSubscribeRequests
    \/ CallGenerateSubscribeRequestsAgain

SpecSign == InitSign /\ [][NextSign]_vars

---------------------------------------------------------------------------
(* validateSubscribeResponse called on its own, as                          *)
(* TestValidateSubscribeResponse calls it                                    *)

\* Requests: zero to two public channels, each with or without a pair of
\* its own, with or without a global pair.
HsRequests ==
    LET own == {<<>>, <<ETH_BTC>>}
        channelLists ==
            {<<>>} \cup {<<ChannelEntry("ticker", a)>> : a \in own}
            \cup {<<ChannelEntry("ticker", a), ChannelEntry("level2", b)>> :
                    a \in own, b \in own}
    IN  {Message("subscribe", g, chans) :
            g \in {<<>>, <<ETH_USD>>}, chans \in channelLists}

\* Responses: zero to two channels, each acknowledging up to MaxHsPairs
\* pairs, under the expected type and another.
HsResponses ==
    LET pairLists == SeqsUpTo({ETH_USD, ETH_BTC, BTC_GBP}, MaxHsPairs)
        entries == {ChannelEntry(name, pairs) :
                        name \in {"ticker", "level2"}, pairs \in pairLists}
    IN  {Message(type, <<>>, chans) :
            type \in {"subscriptions", "nope"}, chans \in SeqsUpTo(entries, 2)}

InitHandshake ==
    /\ InitGx("", <<>>, <<>>)
    /\ InitMain("handshake", [k \in 1..MaxChannels |-> CHOOSE t \in Clock : TRUE])
    /\ closeErrs = {}
    /\ \E req \in HsRequests, rsp \in HsResponses : InitHs(req, rsp)

\* validateSubscribeResponse(req, res)
CallValidateSubscribeResponse ==
    /\ pc = "handshake"
    /\ hsErr = Pending
    /\ hsErr' = validateSubscribeResponse(hsReq, hsRes)
    /\ UNCHANGED <<gxVars, mainVars, envVars, histVars, hsReq, hsRes, pairsCall>>

NextHandshake == CallValidateSubscribeResponse

SpecHandshake == InitHandshake /\ [][NextHandshake]_vars

---------------------------------------------------------------------------
(* Claims *)

ConnIds == 1..Len(cs)

LastCall == IF Len(calls) = 0 THEN "" ELSE calls[Len(calls)]

\* The latest call, a Start, has returned an error raised while it was
\* working on a bundle.
StartFailedInBundle ==
    /\ pc = "idle"
    /\ LastCall = "Start"
    /\ last.ret # Nil
    /\ last.at \in {"dial", "write", "read", "handshake"}

\* The positions of the "user" channels of a bundle.
UserPositions(sub) ==
    {k \in 1..Len(sub.Channels) : sub.Channels[k].Channel = "user"}

\* Positions (i, j) of an acknowledged channel and a sent channel of the
\* same name.
Matched ==
    {ij \in (1..Len(hsRes.Channels)) \X (1..Len(hsReq.Channels)) :
        hsRes.Channels[ij[1]].Channel = hsReq.Channels[ij[2]].Channel}

Count(x, s) == Cardinality({k \in 1..Len(s) : s[k] = x})

SameMultiset(s, t) ==
    /\ Len(s) = Len(t)
    /\ \A k \in 1..Len(s) : Count(s[k], s) = Count(s[k], t)

\* C1: when Start returns an error raised at a step of bundle k (dial, send,
\* receive of the acknowledgement, handshake validation), Close has been
\* called on every connection dialed earlier in that call.
C1_FailedStartClosesAllDialed ==
    StartFailedInBundle =>
        \A k \in 1..Len(startDialed) : cs[startDialed[k]].closes >= 1

\* C2: every bundle of the planner holds at most one "user" channel, and the
\* bundle's key and passphrase are those of that channel.
C2_OneUserPerBundle ==
    pc = "planned" =>
        \A b \in 1..Len(subs) :
            /\ Cardinality(UserPositions(subs[b])) <= 1
            /\ \A k \in UserPositions(subs[b]) :
                /\ subs[b].Key = subs[b].Channels[k].Key
                /\ subs[b].Passphrase = subs[b].Channels[k].Passphrase

\* C3: an acknowledgement is accepted only if every channel of the sent
\* bundle is acknowledged and every acknowledged channel was sent.
C3_AcceptedAcknowledgesEveryChannel ==
    hsErr = Nil =>
        /\ \A j \in 1..Len(hsReq.Channels) : \E ij \in Matched : ij[2] = j
        /\ \A i \in 1..Len(hsRes.Channels) : \E ij \in Matched : ij[1] = i

\* C4: the validator accepts exactly when, for each matched channel, the
\* acknowledged pairs are as a multiset the sent channel's pairs together
\* with the global pairs.
C4_AcceptedIffPairsSameMultiset ==
    hsErr # Pending =>
        (hsErr = Nil <=>
            /\ hsRes.Type = "subscriptions"
            /\ Len(hsRes.Channels) = Len(hsReq.Channels)
            /\ \A i \in 1..Len(hsRes.Channels) : \E ij \in Matched : ij[1] = i
            /\ \A ij \in Matched :
                SameMultiset(hsRes.Channels[ij[1]].Pairs,
                             hsReq.Channels[ij[2]].Pairs \o hsReq.Pairs))

\* A matched channel whose acknowledged pairs differ in number from the
\* sent channel's pairs plus the global ones, or hold a pair that is in
\* neither list.
BadPairs(ij) ==
    LET acked == hsRes.Channels[ij[1]].Pairs
        own == hsReq.Channels[ij[2]].Pairs
    IN  \/ Len(acked) # Len(own) + Len(hsReq.Pairs)
        \/ \E k \in 1..Len(acked) :
              ~InSeq(acked[k], own) /\ ~InSeq(acked[k], hsReq.Pairs)

\* C5: the handshake is rejected when a matched channel acknowledges a
\* number of pairs other than the sent channel's plus the global ones, or,
\* at any position, a pair that is in neither list.
C5_BadPairsRejected ==
    (hsErr # Pending /\ \E ij \in Matched : BadPairs(ij)) => hsErr # Nil

\* A response of the right type and length rejected for its second pair,
\* which is in neither list, after a first pair of the channel's own.
C5_Witness ==
    /\ hsErr = ErrPairMismatch
    /\ \E ij \in Matched :
        LET acked == hsRes.Channels[ij[1]].Pairs
            own == hsReq.Channels[ij[2]].Pairs
        IN  /\ Len(acked) = 2
            /\ InSeq(acked[1], own)
            /\ ~InSeq(acked[2], own) /\ ~InSeq(acked[2], hsReq.Pairs)

\* C6: over any sequence of calls of Start and Stop, Close is called at most
\* once on each connection.
C6_CloseAtMostOnce == \A c \in ConnIds : cs[c].closes <= 1

\* Stop has returned twice in a row after a Start, with a connection closed.
C6_Witness ==
    /\ pc = "idle"
    /\ calls = <<"Start", "Stop", "Stop">>
    /\ \E c \in ConnIds : cs[c].closes = 1

\* C7: after Start has returned an error from a step of a bundle, no listen
\* goroutine it launched is running and no connection it opened is open or
\* recorded, so that a following Stop closes nothing and does not block.
C7_FailedStartLeavesNothing ==
    StartFailedInBundle =>
        \A k \in 1..Len(startDialed) :
            /\ cs[startDialed[k]].task # "running"
            /\ cs[startDialed[k]].closes >= 1
            /\ ~InSeq(startDialed[k], conns)

\* C8: Stop calls Close on every recorded connection before it waits, and
\* when it returns every connection dialed so far has been closed and every
\* listen goroutine launched so far has ended.
C8_StopClosesThenJoins ==
    /\ pc \in {"stop_wait", "stop_clear"} =>
          \A k \in 1..Len(conns) : cs[conns[k]].closes >= 1
    /\ (pc = "stop_clear" \/ (pc = "idle" /\ LastCall = "Stop")) =>
          \A c \in ConnIds : cs[c].closes >= 1 /\ cs[c].task # "running"

\* Stop has returned after closing a connection whose listen goroutine had
\* been launched.
C8_Witness ==
    /\ pc = "idle"
    /\ LastCall = "Stop"
    /\ \E c \in ConnIds : cs[c].launches = 1 /\ cs[c].closes = 1

StopRunning == pc \in {"stop_close", "stop_wait", "stop_clear"}

\* C9: every call of Stop returns, with every listen goroutine ended; with
\* no connection recorded it calls no Close and does not wait.
C9_StopTerminates ==
    /\ StopRunning ~> (pc = "idle" /\ \A c \in ConnIds : cs[c].task # "running")
    /\ []((StopRunning /\ Len(conns) = 0) => (pc # "stop_close" /\ wg = 0))

\* Stop waits for a listen goroutine whose connection it has closed.
C9_Witness ==
    /\ pc = "stop_wait"
    /\ \E c \in ConnIds : cs[c].task = "running" /\ cs[c].closes = 1

\* C10: listen is launched exactly once on a connection whose
\* acknowledgement was received and validated, and never on another.
C10_ListenOnlyAfterValidation ==
    \A c \in ConnIds :
        /\ cs[c].launches <= 1
        /\ cs[c].launches = 1 <=> cs[c].stage = "validated"
        /\ cs[c].task # "none" => cs[c].launches = 1

\* One Start launched listen on its first connection and had the
\* acknowledgement on its second rejected.
C10_Witness ==
    \E c, d \in ConnIds :
        /\ cs[c].stage = "validated" /\ cs[c].launches = 1
        /\ cs[d].stage = "rejected" /\ cs[d].launches = 0
        /\ InSeq(c, startDialed) /\ InSeq(d, startDialed)

\* The number of "user" channels of the validated configuration.
NumUsers ==
    Cardinality({k \in 1..Len(Channels) : Channels[k].Channel = "user"})

\* C11: for a validated configuration with n >= 1 "user" channels the
\* planner yields exactly n bundles, each of type "subscribe" with a
\* non-empty channel list, key, signature, passphrase and timestamp.
C11_OneAuthenticatedBundlePerUser ==
    (pc = "planned" /\ NumUsers >= 1) =>
        /\ Len(subs) = NumUsers
        /\ \A b \in 1..Len(subs) :
            /\ subs[b].Type = "subscribe"
            /\ Len(subs[b].Channels) > 0
            /\ Len(subs[b].Key) > 0
            /\ Len(subs[b].Signature) > 0
            /\ subs[b].Passphrase # ""
            /\ Len(subs[b].Timestamp) > 0

\* C12: a receive error in one listen goroutine ends that goroutine only: it
\* closes no connection, leaves every other connection and goroutine as they
\* are, dials and sends nothing, and changes nothing of what Start or Stop
\* return; the goroutine is never launched again.
C12_ListenErrorEndsOnlyItsTask ==
    [][\A c \in ConnIds :
        /\ (cs[c].task = "running" /\ cs'[c].task = "done") =>
              /\ Len(cs') = Len(cs)
              /\ \A d \in ConnIds : d # c => cs'[d] = cs[d]
              /\ cs'[c].closes = cs[c].closes
              /\ cs'[c].sent = cs[c].sent
              /\ cs'[c].launches = cs[c].launches
              /\ conns' = conns
              /\ pc' = pc
              /\ last' = last
              /\ retErr' = retErr
              /\ calls' = calls
        /\ cs[c].task = "done" =>
              cs'[c].task = "done" /\ cs'[c].launches = cs[c].launches]_vars

\* After a Start that returned nil, one listen goroutine has ended on a
\* receive error of its open connection while another is running.
C12_Witness ==
    /\ pc = "idle"
    /\ calls = <<"Start">>
    /\ last.ret = Nil
    /\ \E c, d \in ConnIds :
        /\ cs[c].task = "done" /\ cs[c].closes = 0
        /\ cs[d].task = "running" /\ cs[d].closes = 0

\* Start is in its loop over subs.
StartInLoop == pc \in {"dial", "write", "read", "validate"}

\* C13: Start works on the requests in the planner's order, one at a time:
\* when it dials for a request, every earlier request has been dialed for,
\* sent, acknowledged and validated, and on one connection the steps are
\* dial, send, receive, validate in that order.
C13_BundlesInOrderOneAtATime ==
    StartInLoop =>
        /\ Len(startDialed) = IF pc = "dial" THEN subIdx - 1 ELSE subIdx
        /\ \A k \in 1..Len(startDialed) :
            /\ \A m \in 1..(k - 1) : startDialed[m] < startDialed[k]
            /\ k < subIdx =>
                  /\ cs[startDialed[k]].stage = "validated"
                  /\ cs[startDialed[k]].sent = <<subs[k]>>
        /\ pc # "dial" =>
              /\ wsConn = startDialed[subIdx]
              /\ pc = "write" =>
                    cs[wsConn].stage = "dialed" /\ cs[wsConn].sent = <<>>
              /\ pc = "read" =>
                    cs[wsConn].stage = "sent" /\ cs[wsConn].sent = <<subs[subIdx]>>
              /\ pc = "validate" =>
                    cs[wsConn].stage = "acked" /\ cs[wsConn].sent = <<subs[subIdx]>>

\* Start has the acknowledgement of its second request, the first one
\* validated.
C13_Witness ==
    /\ pc = "validate"
    /\ subIdx = 2
    /\ cs[startDialed[1]].stage = "validated"

\* C14: the handshake validator rejects every acknowledgement whose type is
\* not "subscriptions" and every acknowledgement whose number of channels
\* is not that of the request, whatever else it holds.
C14_WrongTypeOrCountRejected ==
    (hsErr # Pending /\ (\/ hsRes.Type # "subscriptions"
                         \/ Len(hsRes.Channels) # Len(hsReq.Channels))) =>
        hsErr # Nil

\* An acknowledgement of the right type that leaves out one of two channels
\* and is otherwise what the request asked for has been rejected.
C14_Witness ==
    /\ hsErr = ErrChannelsLength
    /\ hsRes.Type = "subscriptions"
    /\ Len(hsReq.Channels) = 2
    /\ Len(hsRes.Channels) = 1
    /\ resChannelLoop(hsReq, hsRes, 1) = Nil

\* The latest call, a Start, has returned from a failed WriteJSON or
\* ReadJSON.
StartFailedInSendOrReceive ==
    /\ pc = "idle"
    /\ LastCall = "Start"
    /\ last.at \in {"write", "read"}

\* C15: when WriteJSON or ReadJSON fails, Start returns the error of that
\* step, and Close has been called exactly once on the connection the step
\* failed on.
C15_StepErrorReturnedConnClosedOnce ==
    StartFailedInSendOrReceive =>
        /\ last.ret = IF last.at = "write" THEN ErrWriteJSON ELSE ErrReadJSON
        /\ Len(startDialed) > 0
        /\ cs[startDialed[Len(startDialed)]].closes = 1

\* Start has returned the error of ReadJSON on its second connection, the
\* first one's listen goroutine launched.
C15_Witness ==
    /\ StartFailedInSendOrReceive
    /\ last.ret = ErrReadJSON
    /\ Len(startDialed) = 2
    /\ cs[startDialed[1]].launches = 1
    /\ cs[startDialed[2]].stage = "sent"

\* C16: when validateConfig fails, Start returns its error at once: no
\* connection is dialed, nothing is sent, no listen goroutine is launched
\* and gx.conns is as it was.
C16_InvalidConfigStartsNothing ==
    [][(calls' = Append(calls, "Start") /\ verr' # Nil) =>
          /\ pc' = "idle"
          /\ last' = [ret |-> verr', at |-> "config"]
          /\ cs' = cs
          /\ conns' = conns
          /\ wg' = wg
          /\ startDialed' = <<>>]_vars

\* Start has returned the error of validateConfig on a configuration
\* without feed_url, with no connection dialed.
C16_Witness ==
    /\ pc = "idle"
    /\ LastCall = "Start"
    /\ last = [ret |-> <<"not specified: feed_url">>, at |-> "config"]
    /\ cs = <<>>
    /\ conns = <<>>

ChannelNames == {"ticker", "level2", "user"}

\* C17: validateConfig fails for every configuration with an empty
\* feed_url, with no channel, or with a channel whose name is empty or is
\* none of "ticker", "level2", "user", whatever its other fields are.
C17_MissingOrUnknownFieldsRejected ==
    (verr # Pending /\ (\/ FeedURL = ""
                        \/ Len(Channels) = 0
                        \/ \E k \in 1..Len(Channels) :
                              Channels[k].Channel \notin ChannelNames)) =>
        verr # Nil

\* A configuration with a feed_url and two valid channels before one
\* without a name has been rejected for that channel.
C17_Witness ==
    /\ pc = "rejected"
    /\ FeedURL # ""
    /\ Len(Channels) = 3
    /\ Channels[1].Channel = "ticker"
    /\ Channels[2].Channel = "user"
    /\ Channels[3].Channel = ""
    /\ verr = <<"not specified: channel">>

\* The number of channels of the configuration named name.
CountNamed(name) ==
    Cardinality({k \in 1..Len(Channels) : Channels[k].Channel = name})

\* c has a user_name, a key, a secret or a passphrase.
HasIdentity(c) ==
    c.UserName # "" \/ Len(c.Key) > 0 \/ Len(c.Secret) > 0 \/ c.Passphrase # ""

\* C18: validateConfig fails when "ticker" or "level2" is declared twice and
\* when a "ticker" or "level2" channel has a user_name, key, secret or
\* passphrase; it accepts a configuration (with a feed_url) of one "ticker"
\* and one "level2" channel, in either order, without identity fields and
\* with at least one pair each.
C18_PublicChannelRules ==
    verr # Pending =>
        /\ (\/ CountNamed("ticker") >= 2
            \/ CountNamed("level2") >= 2
            \/ \E k \in 1..Len(Channels) :
                  /\ Channels[k].Channel \in {"ticker", "level2"}
                  /\ HasIdentity(Channels[k])) => verr # Nil
        /\ (/\ FeedURL # ""
            /\ Len(Channels) = 2
            /\ CountNamed("ticker") = 1
            /\ CountNamed("level2") = 1
            /\ \A k \in 1..Len(Channels) :
                  /\ ~HasIdentity(Channels[k])
                  /\ Len(Pairs) + Len(Channels[k].Pairs) > 0) => verr = Nil

\* A configuration of "ticker" and twice "level2", all three without
\* identity fields, has been rejected for the second "level2".
C18_Witness ==
    /\ pc = "rejected"
    /\ verr = <<"channel 'level2' declared twice">>
    /\ Len(Channels) = 3
    /\ Channels[1].Channel = "ticker"
    /\ \A k \in 1..3 : ~HasIdentity(Channels[k])

\* The positions of the "user" channels of the configuration.
UserChannels == {k \in 1..Len(Channels) : Channels[k].Channel = "user"}

\* c lacks a user_name, key, secret or passphrase, or its key or secret is
\* not base64.
UserDefect(c) ==
    \/ c.UserName = ""
    \/ Len(c.Key) = 0
    \/ Len(c.Secret) = 0
    \/ c.Passphrase = ""
    \/ ~IsBase64(c.Key)
    \/ ~IsBase64(c.Secret)

\* Two "user" channels have the same user_name or the same key.
SharedIdentity ==
    \E i, j \in UserChannels :
        /\ i < j
        /\ \/ Channels[i].UserName = Channels[j].UserName
           \/ Channels[i].Key = Channels[j].Key

\* C19: validateConfig fails when a "user" channel lacks a user_name, key,
\* secret or passphrase, when its key or secret is not base64, and when two
\* "user" channels share a user_name or a key; it accepts every list of
\* "user" channels (with a feed_url) whose fields are all present, whose
\* keys and secrets are base64, whose user_names and keys are pairwise
\* distinct, and which have a pair available each.
C19_UserChannelRules ==
    verr # Pending =>
        /\ ((\E k \in UserChannels : UserDefect(Channels[k]))
            \/ SharedIdentity) => verr # Nil
        /\ (/\ FeedURL # ""
            /\ Len(Channels) >= 1
            /\ UserChannels = 1..Len(Channels)
            /\ \A k \in UserChannels :
                  /\ ~UserDefect(Channels[k])
                  /\ Len(Pairs) + Len(Channels[k].Pairs) > 0
            /\ ~SharedIdentity) => verr = Nil

\* A second "user" channel, complete and with a name of its own, has been
\* rejected for repeating the key of the first.
C19_Witness ==
    /\ pc = "rejected"
    /\ verr = <<"key should be unique">>
    /\ Len(Channels) = 2
    /\ ~UserDefect(Channels[1]) /\ ~UserDefect(Channels[2])
    /\ Channels[1].UserName # Channels[2].UserName
    /\ Channels[1].Key = Channels[2].Key

\* The position of the first pair of in that upper-cases to pair.
FirstSeen(pair, in) ==
    CHOOSE k \in 1..Len(in) :
        /\ ToUpper(in[k]) = pair
        /\ \A m \in 1..(k - 1) : ToUpper(in[m]) # pair

\* out is in upper-cased, one entry per pair, in the order the pairs are
\* first seen in in.
NormalisedFrom(out, in) ==
    /\ \A k \in 1..Len(in) : InSeq(ToUpper(in[k]), out)
    /\ \A k \in 1..Len(out) : \E m \in 1..Len(in) : ToUpper(in[m]) = out[k]
    /\ \A k, m \in 1..Len(out) : k # m => out[k] # out[m]
    /\ \A k, m \in 1..Len(out) :
          k < m => FirstSeen(out[k], in) < FirstSeen(out[m], in)

\* C20: after a successful validateConfig, gx.Pairs is the list it was
\* given, upper-cased, without duplicates, in the order of first occurrence.
C20_GlobalPairsNormalised ==
    [][(pc = "config" /\ verr' = Nil) => NormalisedFrom(Pairs', Pairs)]_vars

\* The global pairs eth-usd, ETH-BTC, ETH-USD have become ETH-USD, ETH-BTC
\* in an accepted configuration.
C20_Witness ==
    /\ pc = "validated"
    /\ verr = Nil
    /\ Pairs = <<ETH_USD, ETH_BTC>>

\* out is in upper-cased without the pairs of global, one entry per pair,
\* in the order the pairs are first seen in in.
ChannelPairsFrom(out, in, global) ==
    /\ \A k \in 1..Len(in) :
          InSeq(ToUpper(in[k]), out) <=> ~InSeq(ToUpper(in[k]), global)
    /\ \A k \in 1..Len(out) : \E m \in 1..Len(in) : ToUpper(in[m]) = out[k]
    /\ \A k, m \in 1..Len(out) : k # m => out[k] # out[m]
    /\ \A k, m \in 1..Len(out) :
          k < m => FirstSeen(out[k], in) < FirstSeen(out[m], in)

\* C21: after a successful validateConfig, every channel's pairs are the
\* pairs it was given, upper-cased, without duplicates, in the order of
\* first occurrence and without the normalised global pairs; a channel whose
\* pairs are all global ones is left with none, in a configuration that is
\* accepted.
C21_ChannelPairsNormalised ==
    [][(pc = "config" /\ verr' = Nil) =>
          /\ Len(Channels') = Len(Channels)
          /\ \A k \in 1..Len(Channels) :
                ChannelPairsFrom(Channels'[k].Pairs, Channels[k].Pairs, Pairs')]_vars

\* An accepted configuration with global pairs in which "ticker", given
\* eth-usd, has no pairs of its own left and "level2", given btc-usd,
\* BTC-USD, ETH-USD, has BTC-USD.
C21_Witness ==
    /\ pc = "validated"
    /\ Pairs = <<ETH_USD, ETH_BTC>>
    /\ Len(Channels) = 2
    /\ Channels[1].Channel = "ticker" /\ Channels[1].Pairs = <<>>
    /\ Channels[2].Channel = "level2" /\ Channels[2].Pairs = <<BTC_USD>>

\* The "user" channels follow one another in gx.Channels.
UsersContiguous ==
    \A i, j \in UserChannels : \A k \in i..j : k \in UserChannels

\* C22: for a validated configuration whose "user" channels are contiguous,
\* the planner returns max(1, number of "user" channels) bundles.
C22_BundleCountContiguousUsers ==
    /\ pc # "panic"
    /\ (pc = "planned" /\ UsersContiguous) =>
          Len(subs) = IF NumUsers > 1 THEN NumUsers ELSE 1

\* Two bundles planned for "ticker" followed by two "user" channels.
C22_Witness ==
    /\ pc = "planned"
    /\ Len(Channels) = 3
    /\ Channels[1].Channel = "ticker"
    /\ UserChannels = {2, 3}
    /\ Len(subs) = 2

\* Two calls of getSignature given the same secret, key and passphrase that
\* returned the same timestamp.
SameSignerInputs(x, y) ==
    /\ x.secret = y.secret
    /\ x.key = y.key
    /\ x.passphrase = y.passphrase
    /\ x.timestamp = y.timestamp

C24_FailedValidationChangesNothing ==
    [][(pc = "config" /\ verr' # Nil) =>
          /\ Pairs' = Pairs
          /\ Channels' = Channels]_vars

\* The channel lists of the bundles b.. of subs, one after the other.
RECURSIVE ConcatChannels(_)
ConcatChannels(b) ==
    IF b > Len(subs) THEN <<>>
    ELSE subs[b].Channels \o ConcatChannels(b + 1)

\* The number of channels in the bundles before bundle b.
RECURSIVE ChannelsBefore(_)
ChannelsBefore(b) ==
    IF b <= 1 THEN 0 ELSE ChannelsBefore(b - 1) + Len(subs[b - 1].Channels)

\* The bundle that holds the channel at position p of the concatenation.
BundleOf(p) ==
    CHOOSE b \in 1..Len(subs) :
        ChannelsBefore(b) < p /\ p <= ChannelsBefore(b) + Len(subs[b].Channels)

\* C25: the planner puts every channel in one bundle and keeps the order:
\* the bundles' channel lists, one after the other, are gx.Channels; a
\* "ticker" or "level2" channel is on the bundle of the latest "user"
\* channel before it, and on the first bundle when there is none.
C25_ChannelsKeptInOrder ==
    pc = "planned" =>
        /\ ConcatChannels(1) = Channels
        /\ \A p \in 1..Len(Channels) :
              Channels[p].Channel # "user" =>
                  LET before == {u \in UserChannels : u < p}
                  IN  IF before = {} THEN BundleOf(p) = 1
                      ELSE BundleOf(p) =
                              BundleOf(CHOOSE u \in before :
                                          \A v \in before : v <= u)

\* "ticker" planned on the second bundle, after two "user" channels.
C25_Witness ==
    /\ pc = "planned"
    /\ Len(Channels) = 3
    /\ UserChannels = {1, 2}
    /\ Channels[3].Channel = "ticker"
    /\ Len(subs) = 2
    /\ Len(subs[2].Channels) = 2
    /\ subs[2].Channels[2].Channel = "ticker"

\* C26: no two goroutines receive on one connection: while Start is at its
\* ReadJSON on a connection no listen goroutine of that connection exists,
\* Start is done with a connection when listen is launched on it, and
\* listen is launched on it once.
C26_OneReceiverPerConn ==
    \A c \in ConnIds :
        /\ (pc = "read" /\ wsConn = c) => cs[c].task = "none"
        /\ cs[c].task = "running" =>
              /\ cs[c].launches = 1
              /\ cs[c].stage \notin {"dialed", "sent"}
              /\ ~(wsConn = c /\ pc \in {"write", "read", "validate"})

\* Start is at its ReadJSON on a second connection while the listen
\* goroutine of the first is running.
C26_Witness ==
    /\ pc = "read"
    /\ wsConn = 2
    /\ cs[1].task = "running"
    /\ cs[2].task = "none"

\* C27: gx.conns changes only while Start is in its loop, and only by a
\* connection being appended; Stop leaves it as it is.
C27_ConnsOnlyAppendedByStart ==
    [][conns' # conns =>
          /\ StartInLoop
          /\ \E c \in 1..Len(cs') : conns' = Append(conns, c)]_vars

\* The permutations of 1..n.
Perms(n) == {f \in [1..n -> 1..n] : \A i, j \in 1..n : f[i] = f[j] => i = j}

\* The sequences that hold the elements of s in another order.
Reorderings(s) == {[k \in 1..Len(s) |-> s[f[k]]] : f \in Perms(Len(s))}

\* The responses that are rsp with its channels in another order.
ChannelReorderings(rsp) ==
    {[rsp EXCEPT !.Channels = chans] : chans \in Reorderings(rsp.Channels)}

\* The responses that are rsp with the pairs of its channel i in another
\* order.
PairReorderings(rsp, i) ==
    {[rsp EXCEPT !.Channels[i].Pairs = pairs] :
        pairs \in Reorderings(rsp.Channels[i].Pairs)}

\* C28: the verdict of the handshake validator does not depend on the order
\* of the acknowledged channels nor on the order of the pairs of an
\* acknowledged channel.
C28_VerdictIndependentOfOrder ==
    hsErr # Pending =>
        /\ \A rsp \in ChannelReorderings(hsRes) :
              (validateSubscribeResponse(hsReq, rsp) = Nil) <=> (hsErr = Nil)
        /\ \A i \in 1..Len(hsRes.Channels) :
              \A rsp \in PairReorderings(hsRes, i) :
                  (validateSubscribeResponse(hsReq, rsp) = Nil) <=> (hsErr = Nil)

\* An accepted acknowledgement of two channels, named in the order opposite
\* to the request's, one of which lists the global pair before its own.
C28_Witness ==
    /\ hsErr = Nil
    /\ Len(hsReq.Channels) = 2
    /\ hsRes.Channels[1].Channel = hsReq.Channels[2].Channel
    /\ hsRes.Channels[2].Channel = hsReq.Channels[1].Channel
    /\ hsRes.Channels[1].Channel # hsRes.Channels[2].Channel
    /\ \E i \in 1..2 : hsRes.Channels[i].Pairs = <<ETH_USD, ETH_BTC>>

\* C29: after a successful validateConfig every channel has a pair, global
\* or of its own; validateConfig returns its "no pairs" error for a channel
\* only when that channel has no pairs of its own and there are no global
\* pairs, and it returns an error whenever there is such a channel.
C29_EveryChannelHasAPair ==
    verr # Pending =>
        /\ verr = Nil =>
              \A k \in 1..Len(Channels) :
                  Len(Pairs) + Len(Channels[k].Pairs) > 0
        /\ (Len(verr) = 2 /\ verr[1] = "no pairs specified for '%s' channel") =>
              /\ Len(Pairs) = 0
              /\ \E k \in 1..Len(Channels) :
                    /\ Channels[k].Channel = verr[2]
                    /\ Len(Channels[k].Pairs) = 0

\* A "user" channel without pairs has been rejected, after a valid channel,
\* in a configuration without global pairs.
C29_Witness ==
    /\ pc = "rejected"
    /\ verr = <<"no pairs specified for '%s' channel", "user">>
    /\ Len(Channels) = 2
    /\ Len(Channels[1].Pairs) > 0
    /\ Len(Channels[2].Pairs) = 0

\* C30: after a successful validateConfig, gx.userNamesByKey has one entry
\* for each "user" channel, from the channel's key to its user_name, and no
\* other.
C30_UserNamesByKey ==
    (verr = Nil /\ pc \in {"validated", "planned"}) =>
        /\ DOMAIN userNamesByKey = {Channels[k].Key : k \in UserChannels}
        /\ Cardinality(DOMAIN userNamesByKey) = Cardinality(UserChannels)
        /\ \A k \in UserChannels :
              userNamesByKey[Channels[k].Key] = Channels[k].UserName

\* An accepted configuration of "ticker" and two "user" channels, with the
\* two keys mapped to the two names.
C30_Witness ==
    /\ pc = "validated"
    /\ Len(Channels) = 3
    /\ UserChannels = {2, 3}
    /\ DOMAIN userNamesByKey = {Key1, Key2}
    /\ userNamesByKey[Key1] = "John Smith"
    /\ userNamesByKey[Key2] = "Jane Smith"

\* C31: every bundle the planner returns, a bundle that got no channel
\* included, has type "subscribe" and carries gx.Pairs, the whole normalised
\* list of global pairs.
C31_EveryBundleSubscribeWithGlobalPairs ==
    pc = "planned" =>
        /\ Pairs = globalPairsLoop(Pairs, 1, <<>>)
        /\ \A b \in 1..Len(subs) :
              /\ subs[b].Type = "subscribe"
              /\ subs[b].Pairs = Pairs

\* Three bundles planned under two global pairs, the last without a channel.
C31_Witness ==
    /\ pc = "planned"
    /\ Pairs = <<ETH_USD, ETH_BTC>>
    /\ Len(subs) = 3
    /\ Len(subs[3].Channels) = 0
    /\ subs[3].Type = "subscribe"
    /\ subs[3].Pairs = <<ETH_USD, ETH_BTC>>

\* C32: in Stop, a Close() that returns an error stops nothing: Close has
\* been called on that connection, the loop goes on to the next recorded
\* connection (to the wait after the last one), the loop is left only for
\* the wait with Close called on every recorded connection, and the wait is
\* left only when every listen goroutine has ended.
C32_CloseErrorStopsNothing ==
    [][/\ (pc = "stop_close" /\ stopIdx' # stopIdx
                             /\ conns[stopIdx] \in closeErrs) =>
             /\ cs'[conns[stopIdx]].closes = cs[conns[stopIdx]].closes + 1
             /\ IF stopIdx < Len(conns)
                THEN pc' = "stop_close" /\ stopIdx' = stopIdx + 1
                ELSE pc' = "stop_wait"
       /\ (pc = "stop_close" /\ pc' # "stop_close") =>
             /\ pc' = "stop_wait"
             /\ \A k \in 1..Len(conns) : cs'[conns[k]].closes >= 1
       /\ (pc = "stop_wait" /\ pc' # "stop_wait") =>
             /\ pc' = "stop_clear"
             /\ wg = 0]_vars

\* Stop is past its wait with two connections recorded; Close returned an
\* error on the first, and both were closed and their goroutines have ended.
C32_Witness ==
    /\ pc = "stop_clear"
    /\ conns = <<1, 2>>
    /\ closeErrs = {1}
    /\ cs[1].closes = 1 /\ cs[1].task = "done"
    /\ cs[2].closes = 1 /\ cs[2].task = "done"
    /\ wg = 0

\* The bundle carries all four of key, passphrase, timestamp and signature.
HasAuth(sub) ==
    /\ Len(sub.Key) > 0
    /\ sub.Passphrase # ""
    /\ Len(sub.Timestamp) > 0
    /\ Len(sub.Signature) > 0

\* The bundle carries none of them.
NoAuth(sub) ==
    /\ sub.Key = <<>>
    /\ sub.Passphrase = ""
    /\ sub.Timestamp = <<>>
    /\ sub.Signature = <<>>

\* C33: a bundle planned for a validated configuration carries a key, a
\* passphrase, a timestamp and a signature, all non-empty, if one of its
\* channels is a "user" channel, and none of the four otherwise; without
\* "user" channels the planner returns one bundle, which carries none.
C33_AuthIffUserChannel ==
    pc = "planned" =>
        /\ \A b \in 1..Len(subs) :
              IF UserPositions(subs[b]) # {} THEN HasAuth(subs[b])
              ELSE NoAuth(subs[b])
        /\ NumUsers = 0 => Len(subs) = 1 /\ NoAuth(subs[1])

\* "ticker" and two users planned: the first bundle holds the public channel
\* and John's, the second Jane's, each under its user's key.
C33_Witness ==
    /\ pc = "planned"
    /\ Len(subs) = 2
    /\ Len(subs[1].Channels) = 2
    /\ subs[1].Channels[1].Channel = "ticker"
    /\ UserPositions(subs[1]) = {2}
    /\ UserPositions(subs[2]) = {1}
    /\ HasAuth(subs[1]) /\ subs[1].Key = Key1
    /\ HasAuth(subs[2]) /\ subs[2].Key = Key2

\* The bundles the planner allocates for the validated configuration.
NumSubs ==
    IF Cardinality(DOMAIN userNamesByKey) > 1
    THEN Cardinality(DOMAIN userNamesByKey) ELSE 1

\* The planner's walk after the first i channels of gx.Channels.
WalkUpTo(i) ==
    planLoop(SubSeq(Channels, 1, i), clock,
             [subs |-> [k \in 1..NumSubs |-> ZeroMessage],
              subID |-> 0, hasUser |-> FALSE, panic |-> FALSE], 1)

\* C34: for a validated configuration the planner's walk never indexes subs
\* out of range: after every channel, subID is below the number of bundles
\* allocated, which is max(1, number of "user" channels).
C34_BundleIndexInRange ==
    /\ pc # "panic"
    /\ (verr = Nil /\ pc \in {"validated", "planned"}) =>
          /\ NumSubs = IF NumUsers > 1 THEN NumUsers ELSE 1
          /\ \A i \in 0..Len(Channels) :
                /\ ~WalkUpTo(i).panic
                /\ WalkUpTo(i).subID < NumSubs

\* Two users planned: the walk ends on the last of the two bundles.
C34_Witness ==
    /\ pc = "planned"
    /\ NumUsers = 2
    /\ NumSubs = 2
    /\ WalkUpTo(Len(Channels)).subID = 1
    /\ Len(subs) = 2

\* C35: validateConfig called on a configuration it has accepted returns nil
\* again and leaves gx.Pairs, the pairs of every channel and
\* gx.userNamesByKey as they were, so that the planner returns the same
\* bundles for it.
C35_ValidationIdempotent ==
    [][pc = "validated" =>
          /\ pc' = "revalidated"
          /\ verr' = Nil
          /\ Pairs' = Pairs
          /\ Channels' = Channels
          /\ userNamesByKey' = userNamesByKey
          /\ generateSubscribeRequests(Channels', userNamesByKey', Pairs',
                                       clock)
             = generateSubscribeRequests(Channels, userNamesByKey, Pairs,
                                         clock)]_vars

\* A configuration validated twice whose first validation rewrote the
\* global pairs, emptied the pairs of "ticker" and recorded John's key.
C35_Witness ==
    /\ pc = "revalidated"
    /\ verr = Nil
    /\ Pairs = <<ETH_USD, ETH_BTC>>
    /\ Len(Channels) = 2
    /\ Channels[1].Channel = "ticker" /\ Channels[1].Pairs = <<>>
    /\ Channels[2].Channel = "user" /\ Channels[2].Pairs = <<BTC_USD>>
    /\ DOMAIN userNamesByKey = {Key1}

\* C36: a call of validateConfig that returns an error leaves
\* gx.userNamesByKey as it was; gx.userNamesByKey changes only in a call of
\* validateConfig that returns nil.
C36_FailedValidationKeepsUserNames ==
    [][/\ (pc = "config" /\ verr' # Nil) => userNamesByKey' = userNamesByKey
       /\ userNamesByKey' # userNamesByKey =>
             /\ pc = "config"
             /\ verr' = Nil
             /\ pc' = "validated"]_vars

\* John's key is still recorded after validateConfig rejected a "ticker"
\* with a user_name, assigned after the configuration with John was accepted.
C36_Witness ==
    /\ pc = "rejected"
    /\ verr # Nil
    /\ Len(Channels) = 1
    /\ Channels[1].Channel = "ticker"
    /\ Channels[1].UserName = "John Smith"
    /\ DOMAIN userNamesByKey = {Key1}
    /\ userNamesByKey[Key1] = "John Smith"

\* The requests handed to WriteJSON so far, each with the connection it was
\* written to.
Outbound == UNION {{<<c, k>> : k \in 1..Len(cs[c].sent)} : c \in ConnIds}

\* The members of a JSON object w that are among names.
Members(w, names) == {w[f] : f \in DOMAIN w \cap names}

\* The key, signature, timestamp and pairs an encoded request carries.
WireTexts(w) ==
    Members(w, {"key", "signature", "timestamp"})
    \cup UNION {{p[k] : k \in 1..Len(p)} : p \in Members(w, {"product_ids"})}
    \cup UNION {{e["product_ids"][k] : k \in 1..Len(e["product_ids"])} :
                  e \in {x \in {w["channels"][j] :
                                   j \in 1..Len(w["channels"])} :
                            "product_ids" \in DOMAIN x}}

\* The type, passphrase and channel names an encoded request carries.
WireNames(w) ==
    Members(w, {"type", "passphrase"})
    \cup {w["channels"][j]["name"] : j \in 1..Len(w["channels"])}

\* C37: no request written to a connection contains a secret or a user_name
\* of the configuration: its encoding has no member but type, product_ids,
\* channels, key, signature, passphrase and timestamp, the four credentials
\* being those of the bundle; each of its channel entries has no member but
\* name and product_ids; and no member's value is a secret or a user_name of
\* a "user" channel.
C37_NoSecretOnTheWire ==
    \A ck \in Outbound :
        LET req == cs[ck[1]].sent[ck[2]]
            w == marshalSubscribeRequest(req)
        IN  /\ DOMAIN w \subseteq {"type", "product_ids", "channels", "key",
                                   "signature", "passphrase", "timestamp"}
            /\ Members(w, {"key"}) \subseteq {req.Key}
            /\ Members(w, {"signature"}) \subseteq {req.Signature}
            /\ Members(w, {"timestamp"}) \subseteq {req.Timestamp}
            /\ Members(w, {"passphrase"}) \subseteq {req.Passphrase}
            /\ Len(w["channels"]) = Len(req.Channels)
            /\ \A j \in 1..Len(req.Channels) :
                  /\ DOMAIN w["channels"][j] \subseteq {"name", "product_ids"}
                  /\ w["channels"][j]["name"] = req.Channels[j].Channel
            /\ \A u \in UserChannels :
                  /\ Channels[u].Secret \notin WireTexts(w)
                  /\ Channels[u].UserName \notin WireNames(w)

\* John's bundle has been written: the encoded request carries his key, his
\* passphrase and a signature, and a "user" entry with his pair.
C37_Witness ==
    \E ck \in Outbound :
        LET req == cs[ck[1]].sent[ck[2]]
            w == marshalSubscribeRequest(req)
        IN  /\ \E j \in 1..Len(req.Channels) :
                  /\ req.Channels[j].Secret = Secret1
                  /\ req.Channels[j].UserName = "John Smith"
                  /\ w["channels"][j] = ("name" :> "user")
                                        @@ ("product_ids" :> <<BTC_USD>>)
            /\ "signature" \in DOMAIN w
            /\ w["key"] = Key1
            /\ w["passphrase"] = "passphrase"

===========================================================================
